---- MODULE Spec2Model ----
(***************************************************************************)
(* TalkTime dashboard (Kgisb/AA11): the data normalisation, filtering and  *)
(* aggregation pipeline of the Streamlit apps app_talktime.py (v1),        *)
(* app_talktime_v2.py, app_talktime_v3.py and app_talktime_v3_6.py.        *)
(*                                                                         *)
(* Conventions.                                                            *)
(*  - A text is a sequence of one-character strings.                       *)
(*  - A cell value is a record [kind, val]: kind "nan" is the pandas       *)
(*    missing marker (NaN / NaT / None), "num" an int/float, "bool" a      *)
(*    Python bool, "str" a text.  Durations in the modelled inputs are     *)
(*    integer valued, so float arithmetic is exact and is modelled by Int. *)
(*  - A frame (DataFrame view) is the sequence of the row labels (indices  *)
(*    into the uploaded record list) it retains, in row order.             *)
(*  - A run of a script that ends in an exception shows what it rendered   *)
(*    before the exception and nothing after it; err names the exception.  *)
(***************************************************************************)
EXTENDS Integers, Sequences, FiniteSets, TLC

VARIABLES
    dur_in,      \* DurationParser: the raw cell handed to to_seconds
    dur_out,     \* DurationParser: its result ("pending" before the call)
    nm_name,     \* NameMatcher: the raw name cell
    nm_targets,  \* NameMatcher: the normalised roster
    nm_out,      \* NameMatcher: result of fuzzy_match_any ("pending" before)
    app,         \* dashboard: which script runs ("v1", "v2", "v3", "v3_6")
    upload,      \* the uploaded file as read by pd.read_csv
    cols,        \* the columns the running app reads (agent, country, ...)
    today,       \* the current date in Asia/Kolkata
    w,           \* the sidebar widget values
    clicks,      \* widget interactions so far
    df,          \* the prepared frame (cells and derived columns per row)
    df_date,     \* row labels after the date filter
    df_team,     \* row labels after the team mask
    df_f,        \* row labels after the categorical filters
    df_view,     \* row labels after the mode filter (df_view / df_rules)
    tables,      \* agent-wise, country-wise and agent x country tables
    attempts,    \* attempts by hour
    kpi,         \* the KPI strip
    err,         \* how the last run ended: "ok" or the exception raised
    sch_columns, \* SchemaResolver: the headers of the file, in file order
    sch_over,    \* SchemaResolver: the Column Mapping text inputs
    sch_out,     \* SchemaResolver: the resolved columns ("pending" before)
    dp_app,      \* DateParser: the script whose date parsing runs
    dp_col,      \* DateParser: the Date column of the upload
    dp_out       \* DateParser: the parsed column ("pending" before)

dash == <<app, upload, cols, today, w, clicks, df, df_date, df_team, df_f,
          df_view, tables, attempts, kpi, err>>
sch == <<sch_columns, sch_over, sch_out>>
dparse == <<dp_app, dp_col, dp_out>>
vars == <<dur_in, dur_out, nm_name, nm_targets, nm_out, dash, sch, dparse>>

----------------------------------------------------------------------------
(* Bounds of the model.                                                    *)

MaxDurLen == 4     \* longest enumerated duration text
MaxNum == 3        \* numeric duration cells range over -MaxNum..MaxNum
MaxNameLen == 3    \* longest enumerated agent name
MaxHeaders == 3    \* most columns of a file handed to the schema resolver
MaxDates == 3      \* most rows of a Date column handed to the date parser

----------------------------------------------------------------------------
(* Cell values.                                                            *)

NaN == [kind |-> "nan", val |-> 0]
Pending == [kind |-> "pending", val |-> 0]
Num(n) == [kind |-> "num", val |-> n]
Bool(b) == [kind |-> "bool", val |-> b]
Str(s) == [kind |-> "str", val |-> s]

\* pd.isna on a scalar
isna(x) == x.kind = "nan"

\* the dashboard is not running (the parser and matcher specifications)
DashOff ==
    /\ app = "none" /\ upload = NaN /\ cols = NaN /\ today = NaN /\ w = NaN
    /\ clicks = 0
    /\ df = <<>> /\ df_date = <<>> /\ df_team = <<>> /\ df_f = <<>> /\ df_view = <<>>
    /\ tables = NaN /\ attempts = <<>> /\ kpi = NaN /\ err = "none"

\* the schema resolver is not running
SchemaOff == sch_columns = <<>> /\ sch_over = NaN /\ sch_out = NaN

\* the date parser is not running on its own
DatesOff == dp_app = "none" /\ dp_col = <<>> /\ dp_out = NaN

\* All texts over alphabet A of length at most n.
Texts(A, n) == UNION {[1..k -> A] : k \in 0..n}

----------------------------------------------------------------------------
(* Python text primitives used by the helpers.                             *)

Digits == {"0", "1", "2", "3", "4", "5", "6", "7", "8", "9"}
DigitVal == [c \in Digits |->
    CASE c = "0" -> 0 [] c = "1" -> 1 [] c = "2" -> 2 [] c = "3" -> 3
      [] c = "4" -> 4 [] c = "5" -> 5 [] c = "6" -> 6 [] c = "7" -> 7
      [] c = "8" -> 8 [] c = "9" -> 9]

UpperLetters == <<"A", "B", "C", "D", "E", "F", "G", "H", "I", "J", "K", "L", "M",
                  "N", "O", "P", "Q", "R", "S", "T", "U", "V", "W", "X", "Y", "Z">>
LowerLetters == <<"a", "b", "c", "d", "e", "f", "g", "h", "i", "j", "k", "l", "m",
                  "n", "o", "p", "q", "r", "s", "t", "u", "v", "w", "x", "y", "z">>
WhiteSpace == {" ", "\t", "\n"}

Range(s) == {s[i] : i \in DOMAIN s}

\* the one element of a singleton; Only({f(x) : x \in {e}}) is f(e) with e
\* computed once
Only(S) == CHOOSE x \in S : TRUE

\* str.isspace / str.isalnum / str.lower on one character
isspace(c) == c \in WhiteSpace
isalnum(c) == c \in Digits \/ c \in Range(UpperLetters) \/ c \in Range(LowerLetters)
lower(c) ==
    IF c \in Range(UpperLetters)
    THEN LowerLetters[CHOOSE i \in DOMAIN UpperLetters : UpperLetters[i] = c]
    ELSE c

RECURSIVE lstrip(_)
lstrip(s) == IF s # <<>> /\ isspace(Head(s)) THEN lstrip(Tail(s)) ELSE s

RECURSIVE rstrip(_)
rstrip(s) ==
    IF s # <<>> /\ isspace(s[Len(s)]) THEN rstrip(SubSeq(s, 1, Len(s) - 1)) ELSE s

\* str.strip()
strip(s) == rstrip(lstrip(s))

\* str.split(sep) for a one-character separator: k separators give k+1 parts
RECURSIVE split(_, _)
split(s, sep) ==
    IF \A i \in DOMAIN s : s[i] # sep
    THEN <<s>>
    ELSE LET p == CHOOSE i \in DOMAIN s :
                     s[i] = sep /\ \A j \in 1..(i - 1) : s[j] # sep
         IN  <<SubSeq(s, 1, p - 1)>> \o split(SubSeq(s, p + 1, Len(s)), sep)

\* str.split() without argument: the maximal runs of non-whitespace
RECURSIVE split_ws(_)
split_ws(s) ==
    LET t == lstrip(s)
    IN  IF t = <<>> THEN <<>>
        ELSE LET n == IF \E i \in DOMAIN t : isspace(t[i])
                      THEN (CHOOSE i \in DOMAIN t :
                                isspace(t[i]) /\ \A j \in 1..(i - 1) : ~isspace(t[j])) - 1
                      ELSE Len(t)
             IN  <<SubSeq(t, 1, n)>> \o split_ws(SubSeq(t, n + 1, Len(t)))

\* " ".join(parts)
RECURSIVE join_sp(_)
join_sp(parts) ==
    IF parts = <<>> THEN <<>>
    ELSE IF Len(parts) = 1 THEN parts[1]
    ELSE parts[1] \o <<" ">> \o join_sp(Tail(parts))

\* `t in n` on two strings
IsSubstr(t, n) ==
    \E i \in 0..(Len(n) - Len(t)) : SubSeq(n, i + 1, i + Len(t)) = t

RECURSIVE DecVal(_)
DecVal(s) ==
    IF s = <<>> THEN 0 ELSE DecVal(SubSeq(s, 1, Len(s) - 1)) * 10 + DigitVal[s[Len(s)]]

\* float(text): surrounding whitespace is ignored, then an optional sign and
\* a non-empty run of decimal digits.  (Texts with '.', an exponent, '_' or
\* the words inf/nan lie outside the modelled alphabet and are rejected.)
py_float(s) ==
    LET t == strip(s)
        signed == t # <<>> /\ Head(t) \in {"+", "-"}
        body == IF signed THEN Tail(t) ELSE t
        ok == body # <<>> /\ \A i \in DOMAIN body : body[i] \in Digits
    IN  [ok |-> ok,
         val |-> IF ~ok THEN 0
                 ELSE IF signed /\ Head(t) = "-" THEN 0 - DecVal(body)
                 ELSE DecVal(body)]

\* str(x) of a non-missing, non-numeric cell
py_str(x) ==
    IF x.kind = "bool"
    THEN (IF x.val THEN <<"T", "r", "u", "e">> ELSE <<"F", "a", "l", "s", "e">>)
    ELSE x.val

----------------------------------------------------------------------------
(* DurationParser: to_seconds (identical in all four apps).                *)

to_seconds_bool_as_number(x) ==
    IF isna(x) THEN NaN
    ELSE IF x.kind = "num" THEN Num(x.val)
    ELSE IF x.kind = "bool" THEN Num(IF x.val THEN 1 ELSE 0)
    ELSE LET s == strip(py_str(x))
             direct == py_float(s)
             parts == [i \in DOMAIN split(s, ":") |-> py_float(split(s, ":")[i])]
         IN  IF direct.ok THEN Num(direct.val)
             ELSE IF \E i \in DOMAIN parts : ~parts[i].ok THEN NaN
             ELSE IF Len(parts) = 2 THEN Num(parts[1].val * 60 + parts[2].val)
             ELSE IF Len(parts) = 3
                  THEN Num(parts[1].val * 3600 + parts[2].val * 60 + parts[3].val)
             ELSE NaN

to_seconds(x) ==
    IF isna(x) THEN NaN
    ELSE IF x.kind = "num" THEN Num(x.val)
    ELSE LET s == strip(py_str(x))
             direct == py_float(s)
             parts == [i \in DOMAIN split(s, ":") |-> py_float(split(s, ":")[i])]
         IN  IF direct.ok THEN Num(direct.val)
             ELSE IF \E i \in DOMAIN parts : ~parts[i].ok THEN NaN
             ELSE IF Len(parts) = 2 THEN Num(parts[1].val * 60 + parts[2].val)
             ELSE IF Len(parts) = 3
                  THEN Num(parts[1].val * 3600 + parts[2].val * 60 + parts[3].val)
             ELSE NaN

DurAlphabet == {"0", "2", "3", "-", ":", "a", " "}
DurExamples ==
    { <<"2", ":", "3", "0">>,
      <<"1", ":", "0", "2", ":", "0", "3">>,
      <<"a", "b", "c">>,
      <<"1", ":", "2", ":", "3", ":", "4">>,
      <<"-", "1", ":", "3", "0">>,
      <<"-", "5">>,
      <<"1", ":", "0", "0">>,
      <<" ", "1", "2", "0", " ">> }
DurInputs ==
    {NaN} \cup {Bool(TRUE), Bool(FALSE)}
          \cup {Num(n) : n \in (0 - MaxNum)..MaxNum}
          \cup {Str(s) : s \in Texts(DurAlphabet, MaxDurLen) \cup DurExamples}

DurInit ==
    /\ dur_in \in DurInputs
    /\ dur_out = Pending
    /\ nm_name = NaN /\ nm_targets = <<>> /\ nm_out = Pending
    /\ DashOff
    /\ SchemaOff
    /\ DatesOff

\* dfr["Call Duration"].apply(to_seconds) on one cell
ParseDuration ==
    /\ dur_out = Pending
    /\ dur_out' = to_seconds(dur_in)
    /\ UNCHANGED <<dur_in, nm_name, nm_targets, nm_out, dash, sch, dparse>>

DurNext == ParseDuration
SpecDuration == DurInit /\ [][DurNext]_vars

\* The DurationParser contract as the specification states it: missing or
\* empty -> missing; a non-boolean number -> itself; a boolean -> missing;
\* numeric text -> its value; otherwise exactly two numeric ':'-parts ->
\* M*60+S, exactly three -> H*3600+M*60+S, anything else -> missing.
IsNumericText(t) == py_float(t).ok
NumberOf(t) == py_float(t).val
DurationReference(x) ==
    CASE x.kind = "nan" -> NaN
      [] x.kind = "num" -> Num(x.val)
      [] x.kind = "bool" -> NaN
      [] x.kind = "str" ->
            LET t == strip(x.val)
                p == split(t, ":")
                allNumeric == \A i \in DOMAIN p : IsNumericText(p[i])
            IN  CASE t = <<>> -> NaN
                  [] t # <<>> /\ IsNumericText(t) -> Num(NumberOf(t))
                  [] t # <<>> /\ ~IsNumericText(t) /\ Len(p) = 2 /\ allNumeric ->
                        Num(NumberOf(p[1]) * 60 + NumberOf(p[2]))
                  [] t # <<>> /\ ~IsNumericText(t) /\ Len(p) = 3 /\ allNumeric ->
                        Num(NumberOf(p[1]) * 3600 + NumberOf(p[2]) * 60 + NumberOf(p[3]))
                  [] OTHER -> NaN

\* C7 (as claimed): the derived duration_seconds is either the missing
\* marker or a non-negative number, for every input value.
C7_DurationNeverNegative ==
    dur_out.kind = "num" => dur_out.val >= 0

\* C8: the duration parser agrees with the reference contract on every
\* input: missing, numbers, booleans, numeric text, MM:SS and HH:MM:SS text,
\* and every other shape (wrong part count, non-numeric part).
C8_ParserEqualsReference ==
    dur_out # Pending => dur_out = DurationReference(dur_in)

\* C8 witness: "1:02:03" has been parsed to 3723 (and a boolean to missing
\* is covered by the same run).
C8_Witness ==
    /\ dur_in = Str(<<"1", ":", "0", "2", ":", "0", "3">>)
    /\ dur_out = Num(3723)

----------------------------------------------------------------------------
(* NameMatcher: norm_name, fuzzy_match_any and the team rosters (v3.6).    *)

\* the loop of norm_name: alphanumerics are kept, whitespace becomes a
\* blank, every other character is dropped
RECURSIVE keep_chars(_)
keep_chars(s) ==
    IF s = <<>> THEN <<>>
    ELSE IF isalnum(Head(s)) THEN <<Head(s)>> \o keep_chars(Tail(s))
    ELSE IF isspace(Head(s)) THEN <<" ">> \o keep_chars(Tail(s))
    ELSE keep_chars(Tail(s))

norm_name(x) ==
    IF isna(x) THEN <<>>
    ELSE LET raw == py_str(x)
             s == strip([i \in DOMAIN raw |-> lower(raw[i])])
         IN  join_sp(split_ws(keep_chars(s)))

\* difflib.SequenceMatcher(None, a, b): no junk; autojunk only acts on
\* sequences of 200 elements or more.  Positions are 1-based, ranges
\* lo..hi inclusive (empty when lo > hi).
RECURSIVE CommonLen(_, _, _, _, _, _)
CommonLen(a, b, i, j, ahi, bhi) ==
    IF i > ahi \/ j > bhi THEN 0
    ELSE IF a[i] # b[j] THEN 0
    ELSE 1 + CommonLen(a, b, i + 1, j + 1, ahi, bhi)

\* find_longest_match: the longest block a[i..i+k) = b[j..j+k) inside the
\* window; of all longest blocks the one starting earliest in a, and of
\* those the one starting earliest in b.
find_longest_match(a, b, alo, ahi, blo, bhi) ==
    LET len == [i \in alo..ahi |-> [j \in blo..bhi |-> CommonLen(a, b, i, j, ahi, bhi)]]
        best == CHOOSE k \in 0..(ahi - alo + 1) :
                    /\ k = 0 \/ \E i \in alo..ahi : \E j \in blo..bhi : len[i][j] = k
                    /\ \A i \in alo..ahi : \A j \in blo..bhi : len[i][j] <= k
        bi == CHOOSE i \in alo..ahi :
                    /\ \E j \in blo..bhi : len[i][j] = best
                    /\ \A i2 \in alo..(i - 1) : \A j \in blo..bhi : len[i2][j] # best
        bj == CHOOSE j \in blo..bhi :
                    /\ len[bi][j] = best
                    /\ \A j2 \in blo..(j - 1) : len[bi][j2] # best
    IN  IF best = 0 THEN [i |-> alo, j |-> blo, k |-> 0]
        ELSE [i |-> bi, j |-> bj, k |-> best]

\* get_matching_blocks: the total size of the matching blocks
RECURSIVE matching_size(_, _, _, _, _, _)
matching_size(a, b, alo, ahi, blo, bhi) ==
    IF alo > ahi \/ blo > bhi THEN 0
    ELSE LET m == find_longest_match(a, b, alo, ahi, blo, bhi)
         IN  IF m.k = 0 THEN 0
             ELSE m.k + matching_size(a, b, alo, m.i - 1, blo, m.j - 1)
                      + matching_size(a, b, m.i + m.k, ahi, m.j + m.k, bhi)

\* ratio_cut = 0.85, in hundredths
RatioCutPct == 85

\* SequenceMatcher(None, a, b).ratio() >= ratio_cut, i.e. 2*M/T >= 0.85
ratio_ge_cut(a, b) ==
    IF Len(a) + Len(b) = 0 THEN TRUE
    ELSE 200 * matching_size(a, b, 1, Len(a), 1, Len(b)) >= RatioCutPct * (Len(a) + Len(b))

fuzzy_match_any_no_empty_guard(name, targets_norm) ==
    LET n == norm_name(name)
    IN  \E k \in DOMAIN targets_norm :
            LET t == targets_norm[k]
            IN  /\ t # <<>>
                /\ \/ IsSubstr(t, n) \/ IsSubstr(n, t)
                   \/ \E q \in DOMAIN split_ws(t) : IsSubstr(split_ws(t)[q], n)
                   \/ ratio_ge_cut(n, t)

fuzzy_match_any(name, targets_norm) ==
    LET n == norm_name(name)
    IN  /\ n # <<>>
        /\ \E k \in DOMAIN targets_norm :
            LET t == targets_norm[k]
            IN  /\ t # <<>>
                /\ \/ IsSubstr(t, n) \/ IsSubstr(n, t)
                   \/ \E q \in DOMAIN split_ws(t) : IsSubstr(split_ws(t)[q], n)
                   \/ ratio_ge_cut(n, t)

B2C_TARGETS_RAW ==
    << <<"K", "a", "m", "a", "l", "d", "e", "e", "p", " ", "s", "i", "n", "g", "h">>,
       <<"R", "i", "a", " ", "A", "r", "o", "r", "a">>,
       <<"a", "y", "u", "s", "h", "m", "a", "n", " ", "j", "e", "t", "l", "e", "a", "r", "n">>,
       <<"S", "h", "u", "j", "a", "a", "t", " ", "S", "h", "a", "f", "q", "a", "t">>,
       <<"U", "n", "m", "e", "s", "h", " ", "K", "a", "m", "b", "l", "e">>,
       <<"Z", "i", "y", "a", "u", "l", "h", "a", "q", " ", "B", "a", "d", "r">>,
       <<"V", "i", "s", "a", "k", "h", "a">>,
       <<"J", "a", "y", " ", "N", "a", "y", "a", "k">>,
       <<"A", "n", "k", "u", "s", "h", " ", "K", "u", "m", "a", "r">>,
       <<"F", "u", "z", "a", "i", "l", " ", "S", "a", "u", "d", "a", "g", "a", "r">>,
       <<"A", "n", "i", "k", "e", "t", " ", "S", "r", "i", "v", "a", "s", "t", "a", "v", "a">>,
       <<"S", "h", "a", "h", "b", "a", "z", " ", "A", "l", "i">>,
       <<"V", "i", "k", "a", "s", " ", "J", "h", "a">> >>
MTTEAM_TARGETS_RAW == << <<"A", "Y", "U", "S", "H", "M", "A", "N">> >>

B2C_TARGETS == [i \in DOMAIN B2C_TARGETS_RAW |-> norm_name(Str(B2C_TARGETS_RAW[i]))]
MTTEAM_TARGETS == [i \in DOMAIN MTTEAM_TARGETS_RAW |-> norm_name(Str(MTTEAM_TARGETS_RAW[i]))]

\* Inputs of the matcher: every short name over a small alphabet against
\* small rosters, and the documented examples against the two team rosters.
NameAlphabet == {"a", "b", "B", " ", "-"}
SmallRostersRaw ==
    { <<>>,
      << <<"A", "b", " ", "B", "a">> >>,
      << <<>>, <<"a", "-", "b">> >>,
      << <<"b", "a", "b">>, <<"-">>, <<"a", "a", " ", "b">> >> }
SmallRosters == {[i \in DOMAIN r |-> norm_name(Str(r[i]))] : r \in SmallRostersRaw}
NameExamples ==
    { <<"A", "y", "u", "s", "h", "m", "a", "n", " ", "J">>,
      <<"A", "y", "u", "s", "h", "m", "a", "n", " ", "J", "e", "t", "l", "e", "a", "r", "n">>,
      <<"R", "i", "a", " ", "A", "r", "o", "r", "a">>,
      <<"j", "a", "y", "e", "s", "h">>,
      <<"V", "i", "j", "a", "y", " ", "K">>,
      <<"X">>,
      <<"v", "i", "s", "a", "k", "k", "a">>,
      <<"a", "y", "u", "s", "h", "m", "e", "n">>,
      <<"A">>,
      <<"B">> }
NameInputs ==
    ({NaN} \cup {Str(s) : s \in Texts(NameAlphabet, MaxNameLen)}) \X SmallRosters
    \cup ({NaN, Str(<<>>), Str(<<"-", " ", "-">>)} \cup {Str(s) : s \in NameExamples})
         \X {B2C_TARGETS, MTTEAM_TARGETS}

NameInit ==
    /\ \E p \in NameInputs : nm_name = p[1] /\ nm_targets = p[2]
    /\ nm_out = Pending
    /\ dur_in = NaN /\ dur_out = Pending
    /\ DashOff
    /\ SchemaOff
    /\ DatesOff

\* frame[col].apply(lambda x: fuzzy_match_any(x, targets_norm)) on one cell
MatchName ==
    /\ nm_out = Pending
    /\ nm_out' = Bool(fuzzy_match_any(nm_name, nm_targets))
    /\ UNCHANGED <<dur_in, dur_out, nm_name, nm_targets, dash, sch, dparse>>

NameNext == MatchName
SpecMatcher == NameInit /\ [][NameNext]_vars

\* is_member as the specification words it: some non-empty roster entry is
\* a substring of the name or vice versa, or one of its whitespace tokens
\* EQUALS a whitespace token of the name, or the similarity ratio is >= 0.85.
IsMemberAsSpecified(name, targets_norm) ==
    LET n == norm_name(name)
    IN  /\ n # <<>>
        /\ \E k \in DOMAIN targets_norm :
            LET t == targets_norm[k]
            IN  /\ t # <<>>
                /\ \/ IsSubstr(t, n) \/ IsSubstr(n, t)
                   \/ Range(split_ws(t)) \cap Range(split_ws(n)) # {}
                   \/ ratio_ge_cut(n, t)

\* C9 (as claimed): is_member(name, roster) is true exactly when some
\* non-empty roster entry contains / is contained in the normalised name, or
\* shares a whole whitespace-delimited token with it, or has similarity
\* ratio >= 0.85.
C9_MemberIffSpecifiedRule ==
    nm_out # Pending => nm_out.val = IsMemberAsSpecified(nm_name, nm_targets)

\* C10: a name whose normalised form is empty (missing, empty, blank or
\* punctuation only) is never a member of any roster; in particular the
\* missing agent cell of a record never matches a team roster.
C10_EmptyNameNeverMatches ==
    (nm_out # Pending /\ norm_name(nm_name) = <<>>) => nm_out.val = FALSE

\* C10 witness: a punctuation-only name has been matched against the B2C
\* roster and rejected.
C10_Witness ==
    /\ nm_name = Str(<<"-", " ", "-">>)
    /\ nm_targets = B2C_TARGETS
    /\ nm_out = Bool(FALSE)

----------------------------------------------------------------------------
(* Calendar dates and instants of the reporting zone (Asia/Kolkata, which   *)
(* has a fixed +05:30 offset: no local time is nonexistent or ambiguous).  *)

Date(y, m, d) == [kind |-> "date", val |-> <<y, m, d>>]
Timestamp(y, m, d, h, mi) == [kind |-> "ts", val |-> <<y, m, d, h, mi>>]
TimeOfDay(h, mi) == [kind |-> "time", val |-> <<h, mi>>]

IsLeap(y) == (y % 4 = 0 /\ y % 100 # 0) \/ y % 400 = 0
DaysInMonth(y, m) ==
    IF m = 2 THEN (IF IsLeap(y) THEN 29 ELSE 28)
    ELSE IF m \in {4, 6, 9, 11} THEN 30 ELSE 31

\* d + Timedelta(days=1) and d - Timedelta(days=1) on a date cell
next_day(dt) ==
    LET y == dt.val[1] m == dt.val[2] d == dt.val[3]
    IN  IF d < DaysInMonth(y, m) THEN Date(y, m, d + 1)
        ELSE IF m < 12 THEN Date(y, m + 1, 1)
        ELSE Date(y + 1, 1, 1)
prev_day(dt) ==
    LET y == dt.val[1] m == dt.val[2] d == dt.val[3]
    IN  IF d > 1 THEN Date(y, m, d - 1)
        ELSE IF m > 1 THEN Date(y, m - 1, DaysInMonth(y, m - 1))
        ELSE Date(y - 1, 12, 31)

\* comparison of two dates or of two instants (never of a missing value)
LexLess(a, b) ==
    \E i \in DOMAIN a : a[i] < b[i] /\ \A j \in 1..(i - 1) : a[j] = b[j]
Before(a, b) == LexLess(a.val, b.val)
NotAfter(a, b) == a.val = b.val \/ LexLess(a.val, b.val)

\* pd.Timestamp(date, tz=TZ): midnight of that date;  .dt.date;  .dt.hour
Midnight(dt) == Timestamp(dt.val[1], dt.val[2], dt.val[3], 0, 0)
date_of(ts) == IF isna(ts) THEN NaN ELSE Date(ts.val[1], ts.val[2], ts.val[3])
hour_of_zero_when_missing(ts) == IF isna(ts) THEN Num(0) ELSE Num(ts.val[4])
hour_of(ts) == IF isna(ts) THEN NaN ELSE Num(ts.val[4])

AllDigits(s) == s # <<>> /\ \A i \in DOMAIN s : s[i] \in Digits

\* the layouts of a date text: "YYYY-MM-DD" and "AA/BB/YYYY"
IsIsoDate(s) ==
    /\ Len(s) = 10 /\ s[5] = "-" /\ s[8] = "-"
    /\ AllDigits(SubSeq(s, 1, 4)) /\ AllDigits(SubSeq(s, 6, 7))
    /\ AllDigits(SubSeq(s, 9, 10))
IsSlashDate(s) ==
    /\ Len(s) = 10 /\ s[3] = "/" /\ s[6] = "/"
    /\ AllDigits(SubSeq(s, 1, 2)) /\ AllDigits(SubSeq(s, 4, 5))
    /\ AllDigits(SubSeq(s, 7, 10))

\* datetime(y, m, d), missing when there is no such day
valid_date(y, m, d) ==
    IF m \in 1..12 /\ d \in 1..DaysInMonth(y, m) THEN Date(y, m, d) ELSE NaN

\* the reading dateutil takes for "AA/BB/YYYY": day-first when AA cannot be
\* a month, or when day-first is preferred and BB can be one
reads_day_first(s, dayfirst) ==
    DecVal(SubSeq(s, 1, 2)) > 12 \/ (dayfirst /\ DecVal(SubSeq(s, 4, 5)) <= 12)

\* the reading dateutil takes for "YYYY-AA-BB": year-day-month when
\* day-first is preferred and BB can be a month, year-month-day otherwise
reads_year_day_month(s, dayfirst) == dayfirst /\ DecVal(SubSeq(s, 9, 10)) <= 12

\* strptime on one date text with a given format: "iso" %Y-%m-%d, "ydm"
\* %Y-%d-%m, "dmy" %d/%m/%Y, "mdy" %m/%d/%Y
strptime_date(x, layout) ==
    IF isna(x) \/ x.kind # "str" THEN NaN
    ELSE IF layout = "iso" /\ IsIsoDate(x.val)
    THEN valid_date(DecVal(SubSeq(x.val, 1, 4)), DecVal(SubSeq(x.val, 6, 7)),
                    DecVal(SubSeq(x.val, 9, 10)))
    ELSE IF layout = "ydm" /\ IsIsoDate(x.val)
    THEN valid_date(DecVal(SubSeq(x.val, 1, 4)), DecVal(SubSeq(x.val, 9, 10)),
                    DecVal(SubSeq(x.val, 6, 7)))
    ELSE IF layout = "dmy" /\ IsSlashDate(x.val)
    THEN valid_date(DecVal(SubSeq(x.val, 7, 10)), DecVal(SubSeq(x.val, 4, 5)),
                    DecVal(SubSeq(x.val, 1, 2)))
    ELSE IF layout = "mdy" /\ IsSlashDate(x.val)
    THEN valid_date(DecVal(SubSeq(x.val, 7, 10)), DecVal(SubSeq(x.val, 1, 2)),
                    DecVal(SubSeq(x.val, 4, 5)))
    ELSE NaN

\* the format pandas guesses from one text through dateutil (none when the
\* text does not parse): with day-first preferred an ISO text whose last
\* field can be a month is read year-day-month
layout_of(x, dayfirst) ==
    IF isna(x) \/ x.kind # "str" THEN "none"
    ELSE IF IsIsoDate(x.val)
    THEN IF reads_year_day_month(x.val, dayfirst)
         THEN IF isna(strptime_date(x, "ydm")) THEN "none" ELSE "ydm"
         ELSE IF isna(strptime_date(x, "iso")) THEN "none" ELSE "iso"
    ELSE IF IsSlashDate(x.val)
    THEN IF reads_day_first(x.val, dayfirst)
         THEN IF isna(strptime_date(x, "dmy")) THEN "none" ELSE "dmy"
         ELSE IF isna(strptime_date(x, "mdy")) THEN "none" ELSE "mdy"
    ELSE "none"

\* pd.to_datetime on one date text (errors="coerce") parsed on its own: the
\* ISO 8601 reader comes first and reads year-month-day whatever `dayfirst`
\* says; what it rejects goes to dateutil
to_datetime_date(x, dayfirst) ==
    IF ~isna(strptime_date(x, "iso")) THEN strptime_date(x, "iso")
    ELSE strptime_date(x, layout_of(x, dayfirst))

\* pd.to_datetime on a column of date texts (errors="coerce"): the format is
\* guessed from the first non-missing cell and applied to every cell; when
\* none can be guessed each cell is parsed on its own
first_non_null(series) ==
    IF \A i \in DOMAIN series : isna(series[i]) THEN NaN
    ELSE series[CHOOSE i \in DOMAIN series :
                    ~isna(series[i]) /\ \A j \in 1..(i - 1) : isna(series[j])]
to_datetime_with(series, layout, dayfirst) ==
    [i \in DOMAIN series |->
        IF layout = "none" THEN to_datetime_date(series[i], dayfirst)
        ELSE strptime_date(series[i], layout)]
to_datetime_col(series, dayfirst) ==
    Only({to_datetime_with(series, layout, dayfirst) :
            layout \in {layout_of(first_non_null(series), dayfirst)}})

\* pd.to_datetime(time_col, errors="coerce").dt.time on one cell "HH:MM" or
\* "HH:MM:SS" (24-hour clock)
to_datetime_time(x) ==
    IF isna(x) \/ x.kind # "str" THEN NaN
    ELSE LET s == x.val
             h == DecVal(SubSeq(s, 1, 2))
             mi == DecVal(SubSeq(s, 4, 5))
             sec == DecVal(SubSeq(s, 7, 8))
         IN  IF /\ Len(s) \in {5, 8} /\ s[3] = ":"
                /\ AllDigits(SubSeq(s, 1, 2)) /\ AllDigits(SubSeq(s, 4, 5))
                /\ h < 24 /\ mi < 60
                /\ Len(s) = 8 => (s[6] = ":" /\ AllDigits(SubSeq(s, 7, 8)) /\ sec < 60)
             THEN TimeOfDay(h, mi)
             ELSE NaN

\* series.notna().sum()
notna_count(col) == Cardinality({i \in DOMAIN col : ~isna(col[i])})

\* v3.6 parse_date_best: the whole column day-first, the whole column
\* month-first, and the reading with at least as many parsed rows
better_of(d1, d2) == IF notna_count(d1) >= notna_count(d2) THEN d1 ELSE d2
parse_date_best(series) ==
    Only({better_of(d1, d2) :
            d1 \in {to_datetime_col(series, TRUE)},
            d2 \in {to_datetime_col(series, FALSE)}})

\* the naive "date time" text re-parsed and localised to TZ: missing as soon
\* as the date or the time is missing
localize(d, t) ==
    IF isna(d) \/ isna(t) THEN NaN
    ELSE Timestamp(d.val[1], d.val[2], d.val[3], t.val[1], t.val[2])

\* combine_date_time of v3.6 (dates by parse_date_best)
localize_col(d, time_col) ==
    [i \in DOMAIN d |-> localize(d[i], to_datetime_time(time_col[i]))]
combine_date_time(date_col, time_col) ==
    Only({localize_col(d, time_col) : d \in {parse_date_best(date_col)}})

\* combine_date_time of v2 and v3 (dates month-first only)
combine_date_time_v3(date_col, time_col) ==
    Only({localize_col(d, time_col) : d \in {to_datetime_col(date_col, FALSE)}})

\* v1: _parse_datetime reads the text with utc=True (a zone-less text is
\* taken as UTC) and the column is then converted to Asia/Kolkata: +05:30
UtcToKolkata(ts) ==
    LET mins == ts.val[4] * 60 + ts.val[5] + 330
        d == Date(ts.val[1], ts.val[2], ts.val[3])
        d2 == IF mins >= 1440 THEN next_day(d) ELSE d
        m2 == mins % 1440
    IN  Timestamp(d2.val[1], d2.val[2], d2.val[3], m2 \div 60, m2 % 60)
_parse_datetime(x) ==
    IF isna(x) \/ x.kind # "str" THEN NaN
    ELSE LET s == x.val
             d == to_datetime_date(Str(SubSeq(s, 1, 10)), FALSE)
             t == IF Len(s) = 10 THEN TimeOfDay(0, 0)
                  ELSE to_datetime_time(Str(SubSeq(s, 12, Len(s))))
         IN  IF Len(s) >= 10 /\ (Len(s) > 10 => s[11] = " ") /\ ~isna(d) /\ ~isna(t)
             THEN Timestamp(d.val[1], d.val[2], d.val[3], t.val[1], t.val[2])
             ELSE NaN
dt_local_v1(x) ==
    IF isna(_parse_datetime(x)) THEN NaN ELSE UtcToKolkata(_parse_datetime(x))

----------------------------------------------------------------------------
(* Frames, ordering of values, and the aggregation helpers.                *)

\* printable ASCII characters in code-point order (Python compares texts by
\* code point); the rank of a character is its position in this list
Ascii ==
    << " ", "!", "\"", "#", "$", "%", "&", "'", "(", ")", "*", "+", ",", "-", ".", "/",
       "0", "1", "2", "3", "4", "5", "6", "7", "8", "9", ":", ";", "<", "=", ">", "?",
       "@", "A", "B", "C", "D", "E", "F", "G", "H", "I", "J", "K", "L", "M", "N", "O",
       "P", "Q", "R", "S", "T", "U", "V", "W", "X", "Y", "Z", "[", "\\", "]", "^", "_",
       "a", "b", "c", "d", "e", "f", "g", "h", "i", "j", "k", "l", "m", "n", "o",
       "p", "q", "r", "s", "t", "u", "v", "w", "x", "y", "z", "{", "|", "}", "~" >>
CharCode(c) == CHOOSE i \in DOMAIN Ascii : Ascii[i] = c

\* a < b on two texts
TextLess(a, b) ==
    \/ \E i \in 1..Len(a) :
          /\ i <= Len(b) /\ CharCode(a[i]) < CharCode(b[i])
          /\ \A j \in 1..(i - 1) : a[j] = b[j]
    \/ Len(a) < Len(b) /\ \A j \in 1..Len(a) : a[j] = b[j]

\* order of group keys in a groupby(sort=True, dropna=False): texts
\* ascending, the missing value last
CellLess(x, y) ==
    IF isna(x) THEN FALSE ELSE IF isna(y) THEN TRUE ELSE TextLess(x.val, y.val)
KeyLess(k1, k2) ==
    \E i \in DOMAIN k1 :
        /\ CellLess(k1[i], k2[i])
        /\ \A j \in 1..(i - 1) : k1[j] = k2[j]

\* sorted(set of texts): the k-th text has k - 1 texts below it
sorted_texts(S) ==
    [k \in 1..Cardinality(S) |->
        CHOOSE x \in S : Cardinality({y \in S : TextLess(y, x)}) = k - 1]

\* the group keys of a set, in groupby order
sorted_keys(S) ==
    [k \in 1..Cardinality(S) |->
        CHOOSE x \in S : Cardinality({y \in S : KeyLess(y, x)}) = k - 1]

\* a sequence of integers in ascending order
sorted_ints(s) ==
    [k \in DOMAIN s |->
        s[CHOOSE i \in DOMAIN s :
            Cardinality({j \in DOMAIN s : s[j] < s[i] \/ (s[j] = s[i] /\ j < i)})
                = k - 1]]

\* a set of integers as an ascending sequence
sorted_ints_set(S) ==
    [k \in 1..Cardinality(S) |-> CHOOSE x \in S : Cardinality({y \in S : y < x}) = k - 1]

RECURSIVE SumSeq(_)
SumSeq(s) == IF s = <<>> THEN 0 ELSE Head(s) + SumSeq(Tail(s))

Abs(n) == IF n < 0 THEN 0 - n ELSE n
RECURSIVE Gcd(_, _)
Gcd(a, b) == IF b = 0 THEN a ELSE Gcd(b, a % b)

\* the float num/den, kept exact: an integer when den divides num, else the
\* fraction in lowest terms
Ratio(num, den) ==
    IF num % den = 0 THEN Num(num \div den)
    ELSE LET g == Gcd(Abs(num), den)
         IN  [kind |-> "rat", val |-> <<num \div g, den \div g>>]

\* Series.mean() and Series.median(): over the non-missing values, NaN when
\* there is none.  Series.sum(): 0 when there is none.
series_mean_zero_when_empty(vals) ==
    IF vals = <<>> THEN Num(0) ELSE Ratio(SumSeq(vals), Len(vals))
series_mean(vals) ==
    IF vals = <<>> THEN NaN ELSE Ratio(SumSeq(vals), Len(vals))
median_of_sorted(v) ==
    LET n == Len(v)
    IN  IF n = 0 THEN NaN
        ELSE IF n % 2 = 1 THEN Num(v[(n + 1) \div 2])
        ELSE Ratio(v[n \div 2] + v[n \div 2 + 1], 2)
series_median(vals) == Only({median_of_sorted(v) : v \in {sorted_ints(vals)}})

\* column headers of the v2 / v3 / v3.6 upload format
H_Date == <<"D", "a", "t", "e">>
H_Time == <<"T", "i", "m", "e">>
H_Caller == <<"C", "a", "l", "l", "e", "r">>
H_CallType == <<"C", "a", "l", "l", " ", "T", "y", "p", "e">>
H_CountryName == <<"C", "o", "u", "n", "t", "r", "y", " ", "N", "a", "m", "e">>
H_CallStatus == <<"C", "a", "l", "l", " ", "S", "t", "a", "t", "u", "s">>
H_CallDuration == <<"C", "a", "l", "l", " ", "D", "u", "r", "a", "t", "i", "o", "n">>

\* v1 headers of the sample file
H_Agent == <<"A", "g", "e", "n", "t">>
H_Country == <<"C", "o", "u", "n", "t", "r", "y">>
H_Duration == <<"D", "u", "r", "a", "t", "i", "o", "n">>
H_StartTime == <<"S", "t", "a", "r", "t", " ", "T", "i", "m", "e">>

\* `col in dfr.columns`
HasCol(columns, h) == \E i \in DOMAIN columns : columns[i] = h

\* the non-missing values of _duration_sec over some rows of dfr
seconds_of(dfr, nn) == [k \in DOMAIN nn |-> dfr[nn[k]]._duration_sec.val]
durations(dfr, rows) ==
    Only({seconds_of(dfr, nn) :
            nn \in {SelectSeq(rows, LAMBDA i : ~isna(dfr[i]._duration_sec))}})

\* the group key of row i under the grouping columns dims
KeyOf(dfr, i, dims) == [k \in DOMAIN dims |-> dfr[i].cells[dims[k]]]

\* groupby(dims, dropna=False)[field].agg(["count","sum","mean","median"])
\* .reset_index(): one row per key present, in key order; "count" is the
\* pandas count, i.e. the number of non-missing values of the field
agg_row(key, vals) ==
    [key |-> key, count |-> Len(vals), sum |-> SumSeq(vals),
     mean |-> series_mean(vals), median |-> series_median(vals)]
group_of_whole_frame(dfr, frame, dims, key) == frame
group_of(dfr, frame, dims, key) ==
    SelectSeq(frame, LAMBDA i : KeyOf(dfr, i, dims) = key)
grouped_without_unmeasured_groups(dfr, frame, dims) ==
    Only({[g \in DOMAIN keys |->
            Only({agg_row(keys[g], vals) :
                    vals \in {durations(dfr, group_of(dfr, frame, dims, keys[g]))}})] :
          keys \in {sorted_keys({KeyOf(dfr, i, dims) :
                        i \in {j \in Range(frame) : ~isna(dfr[j]._duration_sec)}})}})
grouped(dfr, frame, dims) ==
    Only({[g \in DOMAIN keys |->
            Only({agg_row(keys[g], vals) :
                    vals \in {durations(dfr, group_of(dfr, frame, dims, keys[g]))}})] :
          keys \in {sorted_keys({KeyOf(dfr, frame[p], dims) : p \in DOMAIN frame})}})

ByCountThenSum(r1, r2) ==
    r1.count > r2.count \/ (r1.count = r2.count /\ r1.sum > r2.sum)
BySum(r1, r2) == r1.sum > r2.sum

\* DataFrame.sort_values(..., ascending=False) is a stable sort: a row moves
\* behind every row that sorts before it and behind the equal rows that
\* preceded it.  agg_summary of v3 and v3.6 sorts by Total Calls, then Total
\* Duration.
sorts_before(by, r1, r2) ==
    IF by = "calls, duration" THEN ByCountThenSum(r1, r2) ELSE BySum(r1, r2)
sort_values_keeps_key_order(rows, by) == rows
sort_values(rows, by) ==
    [p \in DOMAIN rows |->
        rows[CHOOSE i \in DOMAIN rows :
                Cardinality({j \in DOMAIN rows :
                                \/ sorts_before(by, rows[j], rows[i])
                                \/ ~sorts_before(by, rows[i], rows[j]) /\ j < i})
                    = p - 1]]
agg_summary(dfr, frame, dims) ==
    Only({sort_values(rows, "calls, duration") : rows \in {grouped(dfr, frame, dims)}})

\* aggregate of v2 and the g_agent / g_country tables of v1: sorted by
\* Total Duration alone
aggregate(dfr, frame, dims) ==
    Only({sort_values(rows, "duration") : rows \in {grouped(dfr, frame, dims)}})

----------------------------------------------------------------------------
(* Schema.  An upload is [columns: the header texts in file order, rows:   *)
(* one function header -> cell per record].  A resolved column is Str(h),  *)
(* an unresolved one (None) is the missing marker.                         *)

None == [kind |-> "none", val |-> 0]
Sel(S) == [kind |-> "list", val |-> S]

lower_text(t) == [i \in DOMAIN t |-> lower(t[i])]

\* a resolver with one pass over the aliases, each tried exactly and then
\* case-insensitively
_coalesce_column_single_pass(columns, candidates) ==
    LET folded == {k \in DOMAIN candidates :
                      \E i \in DOMAIN columns :
                          lower_text(columns[i]) = lower_text(candidates[k])}
        k1 == CHOOSE k \in folded : \A j \in folded : k <= j
        lastcol(key) == CHOOSE i \in DOMAIN columns :
                            /\ lower_text(columns[i]) = key
                            /\ \A j \in DOMAIN columns :
                                   lower_text(columns[j]) = key => j <= i
    IN  IF folded = {} THEN NaN
        ELSE IF HasCol(columns, candidates[k1]) THEN Str(candidates[k1])
        ELSE Str(columns[lastcol(lower_text(candidates[k1]))])

\* v1 _coalesce_column: the first candidate that is a header; failing that,
\* the first candidate whose lower-case form is the lower-case form of a
\* header (of the last such header: the dict keeps the last one)
_coalesce_column(columns, candidates) ==
    LET exact == {k \in DOMAIN candidates : HasCol(columns, candidates[k])}
        folded == {k \in DOMAIN candidates :
                      \E i \in DOMAIN columns :
                          lower_text(columns[i]) = lower_text(candidates[k])}
        first(S) == CHOOSE k \in S : \A j \in S : k <= j
        lastcol(key) == CHOOSE i \in DOMAIN columns :
                            /\ lower_text(columns[i]) = key
                            /\ \A j \in DOMAIN columns :
                                   lower_text(columns[j]) = key => j <= i
    IN  IF exact # {} THEN Str(candidates[first(exact)])
        ELSE IF folded # {}
             THEN Str(columns[lastcol(lower_text(candidates[first(folded)]))])
        ELSE NaN

AgentAliases ==
    << <<"O", "w", "n", "e", "r">>,
       <<"A", "g", "e", "n", "t">>,
       <<"U", "s", "e", "r">>,
       <<"S", "t", "u", "d", "e", "n", "t", "/", "A", "c", "a", "d", "e", "m", "i", "c", " ", "C", "o", "u", "n", "s", "e", "l", "l", "o", "r">>,
       <<"S", "t", "u", "d", "e", "n", "t", "/", "A", "c", "a", "d", "e", "m", "i", "c", " ", "C", "o", "u", "n", "s", "e", "l", "o", "r">>,
       <<"A", "s", "s", "i", "g", "n", "e", "d", " ", "T", "o">>,
       <<"R", "e", "p">>,
       <<"A", "g", "e", "n", "t", " ", "N", "a", "m", "e">> >>
CountryAliases ==
    << <<"C", "o", "u", "n", "t", "r", "y">>,
       <<"C", "o", "u", "n", "t", "r", "y", "/", "R", "e", "g", "i", "o", "n">>,
       <<"C", "o", "u", "n", "t", "r", "y", " ", "N", "a", "m", "e">> >>
DurationAliases ==
    << <<"C", "a", "l", "l", " ", "D", "u", "r", "a", "t", "i", "o", "n">>,
       <<"D", "u", "r", "a", "t", "i", "o", "n">>,
       <<"T", "a", "l", "k", " ", "T", "i", "m", "e">>,
       <<"C", "a", "l", "l", "D", "u", "r", "a", "t", "i", "o", "n">>,
       <<"C", "a", "l", "l", "_", "D", "u", "r", "a", "t", "i", "o", "n">> >>
StartAliases ==
    << <<"S", "t", "a", "r", "t", " ", "T", "i", "m", "e">>,
       <<"C", "a", "l", "l", " ", "S", "t", "a", "r", "t", " ", "T", "i", "m", "e">>,
       <<"C", "r", "e", "a", "t", "e", "d", " ", "A", "t">>,
       <<"T", "i", "m", "e", "s", "t", "a", "m", "p">>,
       <<"C", "a", "l", "l", " ", "S", "t", "a", "r", "t">>,
       <<"S", "t", "a", "r", "t", "e", "d", " ", "A", "t">>,
       <<"D", "a", "t", "e", "/", "T", "i", "m", "e">>,
       <<"D", "a", "t", "e", "t", "i", "m", "e">> >>

\* `col if col in dfr.columns else None` for the fixed headers of v2/v3/v3.6
fixed_col(columns, h) == IF HasCol(columns, h) THEN Str(h) ELSE NaN

\* `map_x or _coalesce_column(df, [...])`: a non-empty text input is taken as
\* it stands, an empty one falls through to the alias list
resolve(override, columns, candidates) ==
    IF override # <<>> THEN Str(override) ELSE _coalesce_column(columns, candidates)

\* the columns each app reads, per logical role; `over` holds the Column
\* Mapping text inputs of v1
schema(ver, columns, over) ==
    IF ver = "v1"
    THEN [agent |-> resolve(over.agent, columns, AgentAliases),
          country |-> resolve(over.country, columns, CountryAliases),
          duration |-> resolve(over.duration, columns, DurationAliases),
          start |-> resolve(over.start, columns, StartAliases),
          type |-> NaN, status |-> NaN, date |-> NaN, time |-> NaN]
    ELSE [agent |-> fixed_col(columns, H_Caller),
          country |-> fixed_col(columns, H_CountryName),
          duration |-> fixed_col(columns, H_CallDuration),
          start |-> NaN,
          type |-> fixed_col(columns, H_CallType),
          status |-> fixed_col(columns, H_CallStatus),
          date |-> fixed_col(columns, H_Date),
          time |-> fixed_col(columns, H_Time)]

----------------------------------------------------------------------------
(* Schema resolution of v1 with the Column Mapping inputs of the sidebar.  *)

\* the alias list of each role
SchemaRoles == {"agent", "country", "duration", "start"}
aliases_of(r) ==
    IF r = "agent" THEN AgentAliases
    ELSE IF r = "country" THEN CountryAliases
    ELSE IF r = "duration" THEN DurationAliases
    ELSE StartAliases

\* agent_col, country_col, duration_col, start_col
resolve_columns(columns, over) ==
    [r \in SchemaRoles |-> resolve(over[r], columns, aliases_of(r))]

\* the columns the script itself has added to the frame when it reads the
\* column of role r: none at df[duration_col], _duration_sec at
\* df[start_col], the time columns as well at df[agent_col], df[country_col]
H_duration_sec == <<"_", "d", "u", "r", "a", "t", "i", "o", "n", "_", "s", "e", "c">>
H_dt_local == <<"_", "d", "t", "_", "l", "o", "c", "a", "l">>
H_date == <<"_", "d", "a", "t", "e">>
H_hour == <<"_", "h", "o", "u", "r">>
added_before(r) ==
    IF r = "duration" THEN {}
    ELSE IF r = "start" THEN {H_duration_sec}
    ELSE {H_duration_sec, H_dt_local, H_date, H_hour}

\* what the script then does with the resolved columns: df[duration_col],
\* df[start_col], df[agent_col] and df[country_col], in this order, raise
\* KeyError on a name that is no column of the frame at that line
ReadOrder == <<"duration", "start", "agent", "country">>
raises_at(columns, sc, r) ==
    ~isna(sc[r]) /\ ~HasCol(columns, sc[r].val) /\ sc[r].val \notin added_before(r)
load_site(columns, sc) ==
    IF \A k \in DOMAIN ReadOrder : ~raises_at(columns, sc, ReadOrder[k]) THEN "none"
    ELSE ReadOrder[CHOOSE k \in DOMAIN ReadOrder :
                      /\ raises_at(columns, sc, ReadOrder[k])
                      /\ \A j \in 1..(k - 1) : ~raises_at(columns, sc, ReadOrder[j])]
load_outcome(columns, sc) ==
    IF load_site(columns, sc) = "none" THEN "ok" ELSE "KeyError"

resolved(columns, over) ==
    Only({[kind |-> "schema", val |-> sc, outcome |-> load_outcome(columns, sc)] :
            sc \in {resolve_columns(columns, over)}})

\* headers a file may carry, and the text inputs tried
H_Notes == <<"N", "o", "t", "e", "s">>
H_Rep == <<"R", "e", "p">>
HeaderPool ==
    { <<"O", "w", "n", "e", "r">>, <<"o", "w", "n", "e", "r">>, <<"O", "W", "N", "E", "R">>,
      H_Agent, H_Duration, <<"d", "u", "r", "a", "t", "i", "o", "n">>, H_Notes }
Headers ==
    {h \in UNION {[1..n -> HeaderPool] : n \in 0..MaxHeaders} :
        \A i, j \in DOMAIN h : h[i] = h[j] => i = j}
Overrides ==
    {[agent |-> a, country |-> <<>>, duration |-> d, start |-> <<>>] :
        a \in {<<>>, H_Agent, H_Rep, H_hour},
        d \in {<<>>, H_Notes}}

\* the same headers with two columns exchanged
reorderings(columns) ==
    {[k \in DOMAIN columns |->
         IF k = i THEN columns[j] ELSE IF k = j THEN columns[i] ELSE columns[k]] :
     i \in DOMAIN columns, j \in DOMAIN columns} \ {columns}

SchemaInit ==
    /\ sch_columns \in Headers
    /\ sch_over \in Overrides
    /\ sch_out = Pending
    /\ dur_in = NaN /\ dur_out = Pending
    /\ nm_name = NaN /\ nm_targets = <<>> /\ nm_out = Pending
    /\ DashOff
    /\ DatesOff

\* lines 111-149 of v1 on the uploaded file
ResolveSchema ==
    /\ sch_out = Pending
    /\ sch_out' = resolved(sch_columns, sch_over)
    /\ UNCHANGED <<sch_columns, sch_over, dur_in, dur_out, nm_name, nm_targets, nm_out, dash, dparse>>

\* the same file uploaded with two of its columns exchanged, resolved again
ReorderColumns ==
    /\ sch_out # Pending
    /\ \E q \in reorderings(sch_columns) :
          /\ sch_columns' = q
          /\ sch_out' = resolved(q, sch_over)
    /\ UNCHANGED <<sch_over, dur_in, dur_out, nm_name, nm_targets, nm_out, dash, dparse>>

SchemaNext == ResolveSchema \/ ReorderColumns
SpecSchema == SchemaInit /\ [][SchemaNext]_vars

\* the first alias of a set of alias positions
first_alias(S) == CHOOSE k \in S : \A j \in S : k <= j
\* the aliases of role r that are headers, and those that are headers up to
\* letter case
exact_aliases(r) ==
    {k \in DOMAIN aliases_of(r) : aliases_of(r)[k] \in Range(sch_columns)}
folded_aliases(r) ==
    {k \in DOMAIN aliases_of(r) :
        \E h \in Range(sch_columns) : lower_text(h) = lower_text(aliases_of(r)[k])}

\* C11 (as claimed): an override is used only when it is supplied and is a
\* header; an override that names no header is not used and the role
\* resolves through its alias list, so every resolved column is a header or
\* the role is unresolved.
C11_OverrideUsedOnlyIfHeader ==
    sch_out # Pending =>
        \A r \in SchemaRoles :
            /\ isna(sch_out.val[r]) \/ sch_out.val[r].val \in Range(sch_columns)
            /\ (sch_over[r] # <<>> /\ sch_over[r] \in Range(sch_columns))
                   => sch_out.val[r] = Str(sch_over[r])
            /\ (sch_over[r] # <<>> /\ sch_over[r] \notin Range(sch_columns))
                   => sch_out.val[r] = _coalesce_column(sch_columns, aliases_of(r))

\* C12: without an override a role resolves to the first alias that is a
\* header; only when no alias is a header, to a header equal up to letter
\* case to the first alias that has one; and it is unresolved exactly when no
\* alias equals a header up to letter case.
C12_ExactAliasBeforeCaseInsensitive ==
    sch_out # Pending =>
        \A r \in SchemaRoles :
            sch_over[r] = <<>> =>
                /\ exact_aliases(r) # {}
                       => sch_out.val[r] = Str(aliases_of(r)[first_alias(exact_aliases(r))])
                /\ (exact_aliases(r) = {} /\ folded_aliases(r) # {})
                       => /\ ~isna(sch_out.val[r])
                          /\ sch_out.val[r].val \in Range(sch_columns)
                          /\ lower_text(sch_out.val[r].val)
                                = lower_text(aliases_of(r)[first_alias(folded_aliases(r))])
                /\ isna(sch_out.val[r]) <=> folded_aliases(r) = {}

\* a file with the headers "owner" and "Agent" and no "Owner": the later
\* alias, matching exactly, is the agent column
C12_Witness ==
    /\ sch_out # Pending
    /\ sch_over.agent = <<>>
    /\ <<"o", "w", "n", "e", "r">> \in Range(sch_columns)
    /\ H_Agent \in Range(sch_columns)
    /\ <<"O", "w", "n", "e", "r">> \notin Range(sch_columns)
    /\ sch_out.val.agent = Str(H_Agent)

\* C13 (as claimed): the resolved columns depend on the set of headers only:
\* resolving the same headers again, in whatever column order, gives the
\* same role-to-column mapping.
C13_ResolutionIgnoresColumnOrder ==
    [][(/\ sch_out # Pending /\ sch_out' # Pending
        /\ Range(sch_columns') = Range(sch_columns)
        /\ sch_over' = sch_over) => sch_out'.val = sch_out.val]_vars

----------------------------------------------------------------------------
(* Load & Prepare: the derived columns.                                    *)

\* v3.6 clean_str_col on one cell: text cells are stripped, missing stays
clean_str_col(x) == IF isna(x) THEN x ELSE Str(strip(py_str(x)))
CleanedCols == {H_Caller, H_CountryName, H_CallType, H_CallStatus}

\* one cell per row of a column, all missing when the column is absent
column_of(up, c) ==
    [i \in DOMAIN up.rows |-> IF isna(c) THEN NaN ELSE up.rows[i][c.val]]

\* the parsed Date column of v3.6
date_only_col(ver, up, sc) ==
    IF ver = "v3_6" /\ ~isna(sc.date)
    THEN parse_date_best(column_of(up, sc.date))
    ELSE [i \in DOMAIN up.rows |-> NaN]

\* the local call time of each row
dt_local_col(ver, up, sc) ==
    IF ver = "v1"
    THEN [i \in DOMAIN up.rows |-> dt_local_v1(column_of(up, sc.start)[i])]
    ELSE IF isna(sc.date) \/ isna(sc.time)
         THEN [i \in DOMAIN up.rows |-> NaN]
    ELSE IF ver = "v3_6"
         THEN combine_date_time(column_of(up, sc.date), column_of(up, sc.time))
    ELSE combine_date_time_v3(column_of(up, sc.date), column_of(up, sc.time))

\* one row of the prepared frame, given its parsed date and local time
prepared_row(ver, up, sc, i, d, dt) ==
    [cells |-> [h \in Range(up.columns) |->
                   IF ver = "v3_6" /\ h \in CleanedCols
                   THEN clean_str_col(up.rows[i][h]) ELSE up.rows[i][h]],
     _duration_sec |-> to_seconds(column_of(up, sc.duration)[i]),
     _date_only |-> IF ver = "v3_6" THEN d ELSE date_of(dt),
     _dt_local |-> dt,
     _hour |-> hour_of(dt)]

prepare(ver, up, sc) ==
    Only({[i \in DOMAIN up.rows |->
             Only({prepared_row(ver, up, sc, i, p[1], p[2]) :
                     p \in {<<dates[i], dts[i]>>}})] :
          dates \in {date_only_col(ver, up, sc)}, dts \in {dt_local_col(ver, up, sc)}})

\* the frame holding every row of dfr
all_rows(dfr) == [i \in DOMAIN dfr |-> i]

\* Series.astype(str) on one cell of a text column
astype_str(x) == IF isna(x) THEN <<"n", "a", "n">> ELSE py_str(x)

\* sorted(dfr[col].dropna().astype(str).unique().tolist()): picker options
options(dfr, c) ==
    IF isna(c) THEN {}
    ELSE {astype_str(dfr[i].cells[c.val]) : i \in {j \in DOMAIN dfr : ~isna(dfr[j].cells[c.val])}}

\* options[: min(10, len(options))], the default selection of v1, v2, v3
first_ten(S) ==
    LET s == sorted_texts(S) IN {s[i] : i \in 1..(IF Len(s) < 10 THEN Len(s) ELSE 10)}

----------------------------------------------------------------------------
(* FilterEngine.                                                           *)

\* v3.6 date_preset_bounds; None is the empty tuple
date_preset_bounds(preset, custom_range, now) ==
    IF preset = "Today" THEN <<now, now>>
    ELSE IF preset = "Yesterday" THEN <<prev_day(now), prev_day(now)>>
    ELSE IF Len(custom_range) # 2 THEN <<>>
    ELSE custom_range

\* v3.6 filter_by_date: start_date <= _date_only <= end_date
filter_by_date(dfr, frame, start_date, end_date) ==
    SelectSeq(frame, LAMBDA i :
        /\ ~isna(dfr[i]._date_only)
        /\ NotAfter(start_date, dfr[i]._date_only)
        /\ NotAfter(dfr[i]._date_only, end_date))

\* what a stage of the script hands on: a frame (its row labels), the
\* exception it raised, or the frame from which every column is gone
Frame(rows) == [kind |-> "frame", val |-> rows]
Raised(e) == [kind |-> "error", val |-> e]
Bare == [kind |-> "bare", val |-> <<>>]
rows_of(x) == IF x.kind = "frame" THEN x.val ELSE <<>>

\* the instant window [start, end) of v1, v2 and v3, with timezone-aware
\* bounds: the comparison raises TypeError on a timezone-naive _dt_local
\* column, whatever the rows
in_window(dfr, frame, start, end, naive) ==
    IF naive THEN Raised("TypeError")
    ELSE Frame(SelectSeq(frame, LAMBDA i :
                   /\ ~isna(dfr[i]._dt_local)
                   /\ NotAfter(start, dfr[i]._dt_local)
                   /\ Before(dfr[i]._dt_local, end)))

\* v3 preset_filter / v2 filt_date_preset, applied to dfr.dropna(_dt_local)
preset_filter(dfr, frame, preset, custom_range, now, naive) ==
    IF preset = "Today"
    THEN in_window(dfr, frame, Midnight(now), Midnight(next_day(now)), naive)
    ELSE IF preset = "Yesterday"
    THEN in_window(dfr, frame, Midnight(prev_day(now)), Midnight(now), naive)
    ELSE IF Len(custom_range) # 2 THEN Frame(frame)
    ELSE in_window(dfr, frame, Midnight(custom_range[1]),
                   Midnight(next_day(custom_range[2])), naive)

\* v1 date_range: (start 00:00, end 00:00 + 1 day) from a complete pick; the
\* _dt_local column of a resolved start column is timezone-aware
date_filter_v1(dfr, frame, dr, start_col) ==
    IF Len(dr) = 2 /\ ~isna(start_col)
    THEN in_window(dfr, frame, Midnight(dr[1]), Midnight(next_day(dr[2])), FALSE)
    ELSE Frame(frame)

\* v2 / v3: without the Date or the Time column _dt_local is the scalar
\* pd.NaT, a timezone-naive column
naive_dt_local(sc) == isna(sc.date) \/ isna(sc.time)

\* the date stage of each app
date_stage(ver, dfr, sc, wd, now) ==
    IF ver = "v3_6"
    THEN LET bounds == date_preset_bounds(wd.preset, wd.custom, now)
         IN  IF bounds # <<>>
             THEN Frame(filter_by_date(dfr, all_rows(dfr), bounds[1], bounds[2]))
             ELSE Frame(all_rows(dfr))
    ELSE IF ver = "v1"
    THEN date_filter_v1(dfr, all_rows(dfr), wd.custom, sc.start)
    ELSE preset_filter(dfr, SelectSeq(all_rows(dfr), LAMBDA i : ~isna(dfr[i]._dt_local)),
                       wd.preset, wd.custom, now, naive_dt_local(sc))

\* v3.6 mask_for_targets on row i
mask_for_targets(dfr, sc, i, targets_norm) ==
    /\ ~isna(sc.agent)
    /\ fuzzy_match_any(dfr[i].cells[sc.agent.val], targets_norm)

\* a team mask in which the MT flag narrows the base selection to the MT team
team_mask_mt_restricts(dfr, sc, wd, i) ==
    \/ /\ IF wd.team_mode = "B2C team only"
          THEN mask_for_targets(dfr, sc, i, B2C_TARGETS) ELSE TRUE
       /\ wd.add_mt => mask_for_targets(dfr, sc, i, MTTEAM_TARGETS)
    \/ wd.include_missing /\ ~isna(sc.agent) /\ isna(dfr[i].cells[sc.agent.val])

\* a team mask that does not look at include_missing
team_mask_without_missing(dfr, sc, wd, i) ==
    \/ IF wd.team_mode = "B2C team only"
       THEN mask_for_targets(dfr, sc, i, B2C_TARGETS) ELSE TRUE
    \/ wd.add_mt /\ mask_for_targets(dfr, sc, i, MTTEAM_TARGETS)

\* v3.6 team_mask on row i: base selection, OR the MT team, OR a missing
\* agent when include_missing is set
team_mask(dfr, sc, wd, i) ==
    \/ IF wd.team_mode = "B2C team only"
       THEN mask_for_targets(dfr, sc, i, B2C_TARGETS) ELSE TRUE
    \/ wd.add_mt /\ mask_for_targets(dfr, sc, i, MTTEAM_TARGETS)
    \/ wd.include_missing /\ ~isna(sc.agent) /\ isna(dfr[i].cells[sc.agent.val])

\* on a frame without rows b2c_mask is an empty Series that is not boolean;
\* when neither the MT flag nor include_missing ORs a boolean Series into
\* it, df_f[team_mask] selects columns, none of them
mask_selects_columns(sc, wd, frame) ==
    /\ frame = <<>> /\ ~isna(sc.agent)
    /\ wd.team_mode = "B2C team only" /\ ~wd.add_mt /\ ~wd.include_missing

team_stage(ver, dfr, sc, wd, frame) ==
    IF ver # "v3_6" THEN Frame(frame)
    ELSE IF mask_selects_columns(sc, wd, frame) THEN Bare
    ELSE Frame(SelectSeq(frame, LAMBDA i : team_mask(dfr, sc, wd, i)))

\* v3.6 _apply_filter
_apply_filter_drop_missing(dfr, include_missing, frame, c, selections) ==
    IF selections = None \/ isna(c) THEN frame
    ELSE IF selections.val = {} THEN frame
    ELSE SelectSeq(frame, LAMBDA i : astype_str(dfr[i].cells[c.val]) \in selections.val)
_apply_filter(dfr, include_missing, frame, c, selections) ==
    IF selections = None \/ isna(c) THEN frame
    ELSE IF selections.val = {} THEN frame
    ELSE IF include_missing
    THEN SelectSeq(frame, LAMBDA i :
             \/ astype_str(dfr[i].cells[c.val]) \in selections.val
             \/ isna(dfr[i].cells[c.val]))
    ELSE SelectSeq(frame, LAMBDA i : astype_str(dfr[i].cells[c.val]) \in selections.val)

\* v2 / v3: `if sel is not None and len(sel) > 0: df_f[col.astype(str).isin(sel)]`
isin_filter_empty_selects_nothing(dfr, frame, c, selections) ==
    IF selections = None THEN frame
    ELSE SelectSeq(frame, LAMBDA i : astype_str(dfr[i].cells[c.val]) \in selections.val)
isin_filter_nonempty(dfr, frame, c, selections) ==
    IF selections = None \/ selections.val = {} THEN frame
    ELSE SelectSeq(frame, LAMBDA i : astype_str(dfr[i].cells[c.val]) \in selections.val)

\* v1: `if sel is not None: df_f[col.astype(str).isin(sel)]`
isin_filter(dfr, frame, c, selections) ==
    IF selections = None THEN frame
    ELSE SelectSeq(frame, LAMBDA i : astype_str(dfr[i].cells[c.val]) \in selections.val)

\* the categorical filters of each app, in source order
categorical_stage(ver, dfr, sc, wd, frame) ==
    IF ver = "v3_6"
    THEN LET f1 == _apply_filter(dfr, wd.include_missing, frame, sc.agent, wd.sel_agents)
             f2 == _apply_filter(dfr, wd.include_missing, f1, sc.country, wd.sel_countries)
             f3 == _apply_filter(dfr, wd.include_missing, f2, sc.type, wd.sel_types)
         IN  _apply_filter(dfr, wd.include_missing, f3, sc.status, wd.sel_status)
    ELSE IF ver = "v1"
    THEN isin_filter(dfr, isin_filter(dfr, frame, sc.agent, wd.sel_agents),
                     sc.country, wd.sel_countries)
    ELSE LET f1 == isin_filter_nonempty(dfr, frame, sc.agent, wd.sel_agents)
             f2 == isin_filter_nonempty(dfr, f1, sc.country, wd.sel_countries)
             f3 == isin_filter_nonempty(dfr, f2, sc.type, wd.sel_types)
         IN  isin_filter_nonempty(dfr, f3, sc.status, wd.sel_status)

\* df_f[df_f["_duration_sec"] >= float(threshold)]: a comparison with a
\* missing duration is False
at_least_strictly_above(dfr, frame, threshold) ==
    SelectSeq(frame, LAMBDA i :
        dfr[i]._duration_sec.kind = "num" /\ dfr[i]._duration_sec.val > threshold)
at_least_keeps_missing(dfr, frame, threshold) ==
    SelectSeq(frame, LAMBDA i :
        dfr[i]._duration_sec.kind # "num" \/ dfr[i]._duration_sec.val >= threshold)
at_least(dfr, frame, threshold) ==
    SelectSeq(frame, LAMBDA i :
        dfr[i]._duration_sec.kind = "num" /\ dfr[i]._duration_sec.val >= threshold)

\* the mode filter: df_view of v3 / v3.6, df_rules of v1 / v2.  v1 does not
\* filter when no duration column was resolved.
mode_stage(ver, dfr, sc, wd, frame) ==
    IF wd.mode = "threshold"
    THEN IF ver = "v1" /\ isna(sc.duration) THEN frame
         ELSE at_least(dfr, frame, wd.threshold)
    ELSE frame

----------------------------------------------------------------------------
(* The views: KPI strip, the three aggregate tables, attempts by hour.     *)

Unavailable == [ok |-> FALSE, rows |-> <<>>]
Table(rows) == [ok |-> TRUE, rows |-> rows]

\* the table function of each app: agg_summary in v3 / v3.6, aggregate in
\* v2, the inline groupby of g_agent / g_country in v1
summary(ver, dfr, frame, dims) ==
    IF ver \in {"v3", "v3_6"} THEN agg_summary(dfr, frame, dims)
    ELSE aggregate(dfr, frame, dims)

\* v1 pivot: groupby([agent, country], dropna=False)[_duration_sec].sum(),
\* shown sorted by the sum
key_and_sum(rows) == [p \in DOMAIN rows |-> [key |-> rows[p].key, sum |-> rows[p].sum]]
pivot(dfr, frame, dims) ==
    Only({key_and_sum(rows) : rows \in {aggregate(dfr, frame, dims)}})

views(ver, dfr, sc, view) ==
    [agent |-> IF isna(sc.agent) THEN Unavailable
               ELSE Table(summary(ver, dfr, view, <<sc.agent.val>>)),
     country |-> IF isna(sc.country) THEN Unavailable
                 ELSE Table(summary(ver, dfr, view, <<sc.country.val>>)),
     matrix |-> IF isna(sc.agent) \/ isna(sc.country) THEN Unavailable
                ELSE IF ver = "v1"
                THEN Table(pivot(dfr, view, <<sc.agent.val, sc.country.val>>))
                ELSE Table(summary(ver, dfr, view, <<sc.agent.val, sc.country.val>>))]

\* the frame the 24h tab reads: df_f, the set before the mode filter
attempts_source_after_mode(df_f_, df_view_) == df_view_
attempts_source(df_f_, df_view_) == df_f_

\* frame.dropna(subset=[_hour]).groupby(_hour).size(), sorted by Hour; the
\* empty table stands for the "no valid time" notice
size_by_hour(dfr, timed, hours) ==
    [k \in DOMAIN hours |->
        [Hour |-> hours[k],
         Attempts |-> Len(SelectSeq(timed, LAMBDA i : dfr[i]._hour.val = hours[k]))]]
attempts_by_hour(dfr, frame) ==
    Only({Only({size_by_hour(dfr, timed, hours) :
                    hours \in {sorted_ints_set({dfr[timed[p]]._hour.val :
                                                    p \in DOMAIN timed})}}) :
          timed \in {SelectSeq(frame, LAMBDA i : ~isna(dfr[i]._hour))}})

\* the KPI strip over the view
kpis(dfr, sc, view) ==
    [total_calls |-> Len(view),
     avg |-> series_mean(durations(dfr, view)),
     median |-> series_median(durations(dfr, view)),
     agents |-> IF isna(sc.agent) THEN 0
                ELSE Cardinality({dfr[view[p]].cells[sc.agent.val] : p \in DOMAIN view}
                                 \ {NaN})]

----------------------------------------------------------------------------
(* Inputs: sample files, the clock and the widget positions exercised.     *)

\* a file in the Date / Time / Caller layout read by v2, v3 and v3.6: the
\* three calls of the threshold scenario (A 60 s, A 30 s, B 120 s) today, a
\* call of yesterday with every optional field blank, and an older call
\* with an unreadable duration, an unstripped country and no time
SampleFile ==
    [columns |-> << H_Date, H_Time, H_Caller, H_CallType, H_CountryName, H_CallStatus, H_CallDuration >>,
     rows |-> <<
        (H_Date :> Str(<<"2", "0", "2", "4", "-", "0", "1", "-", "0", "2">>) @@
         H_Time :> Str(<<"1", "0", ":", "3", "0">>) @@
         H_Caller :> Str(<<"A">>) @@
         H_CallType :> Str(<<"O", "u", "t">>) @@
         H_CountryName :> Str(<<"I", "N">>) @@
         H_CallStatus :> Str(<<"A", "n", "s">>) @@
         H_CallDuration :> Str(<<"1", ":", "0", "0">>)),
        (H_Date :> Str(<<"2", "0", "2", "4", "-", "0", "1", "-", "0", "2">>) @@
         H_Time :> Str(<<"1", "0", ":", "4", "5">>) @@
         H_Caller :> Str(<<"A">>) @@
         H_CallType :> Str(<<"O", "u", "t">>) @@
         H_CountryName :> Str(<<"I", "N">>) @@
         H_CallStatus :> Str(<<"A", "n", "s">>) @@
         H_CallDuration :> Str(<<"0", ":", "3", "0">>)),
        (H_Date :> Str(<<"2", "0", "2", "4", "-", "0", "1", "-", "0", "2">>) @@
         H_Time :> Str(<<"2", "3", ":", "1", "5">>) @@
         H_Caller :> Str(<<"B">>) @@
         H_CallType :> Str(<<"O", "u", "t">>) @@
         H_CountryName :> Str(<<"U", "S">>) @@
         H_CallStatus :> Str(<<"A", "n", "s">>) @@
         H_CallDuration :> Str(<<"2", ":", "0", "0">>)),
        (H_Date :> Str(<<"2", "0", "2", "4", "-", "0", "1", "-", "0", "1">>) @@
         H_Time :> Str(<<"0", "9", ":", "0", "0">>) @@
         H_Caller :> NaN @@
         H_CallType :> NaN @@
         H_CountryName :> NaN @@
         H_CallStatus :> NaN @@
         H_CallDuration :> NaN),
        (H_Date :> Str(<<"2", "0", "2", "3", "-", "1", "2", "-", "3", "1">>) @@
         H_Time :> NaN @@
         H_Caller :> Str(<<"X">>) @@
         H_CallType :> Str(<<"O", "u", "t">>) @@
         H_CountryName :> Str(<<" ", "U", "S">>) @@
         H_CallStatus :> Str(<<"A", "n", "s">>) @@
         H_CallDuration :> Str(<<"a", "b", "c">>)) >>]

\* a file in the layout resolved by v1 (timestamps are UTC texts: 19:00 UTC
\* is 00:30 of the next day in Asia/Kolkata)
SampleFileV1 ==
    [columns |-> << H_Agent, H_Country, H_Duration, H_StartTime >>,
     rows |-> <<
        (H_Agent :> Str(<<"A">>) @@
         H_Country :> Str(<<"I", "N">>) @@
         H_Duration :> Str(<<"1", ":", "0", "0">>) @@
         H_StartTime :> Str(<<"2", "0", "2", "4", "-", "0", "1", "-", "0", "1", " ", "1", "0", ":", "3", "0">>)),
        (H_Agent :> Str(<<"A">>) @@
         H_Country :> Str(<<"I", "N">>) @@
         H_Duration :> Str(<<"0", ":", "3", "0">>) @@
         H_StartTime :> Str(<<"2", "0", "2", "4", "-", "0", "1", "-", "0", "1", " ", "1", "9", ":", "0", "0">>)),
        (H_Agent :> Str(<<"B">>) @@
         H_Country :> Str(<<"U", "S">>) @@
         H_Duration :> Str(<<"2", ":", "0", "0">>) @@
         H_StartTime :> Str(<<"2", "0", "2", "4", "-", "0", "1", "-", "0", "2", " ", "0", "3", ":", "0", "0">>)),
        (H_Agent :> NaN @@
         H_Country :> NaN @@
         H_Duration :> NaN @@
         H_StartTime :> NaN) >>]

\* the records of file f at the positions I, in file order
pick_rows(f, I) ==
    [columns |-> f.columns,
     rows |-> [k \in 1..Cardinality(I) |->
                  f.rows[CHOOSE i \in I : Cardinality({j \in I : j < i}) = k - 1]]]

\* file f with the cell of column h blank in record i
blank_cell(f, i, h) ==
    [columns |-> f.columns,
     rows |-> [k \in DOMAIN f.rows |->
                  [c \in DOMAIN f.rows[k] |->
                      IF k = i /\ c = h THEN NaN ELSE f.rows[k][c]]]]

\* file f without the columns in D
drop_columns(f, D) ==
    LET kept == SelectSeq(f.columns, LAMBDA h : h \notin D)
    IN  [columns |-> kept,
         rows |-> [i \in DOMAIN f.rows |-> [h \in Range(kept) |-> f.rows[i][h]]]]

Apps == {"v1", "v2", "v3", "v3_6"}

\* today's calls (dated day first, 02/01/2024) of four agents for the team
\* filters of v3.6: one on the MT
\* roster only (a misspelt "Ayushman"), one with no agent recorded, one on
\* the B2C roster, one on neither roster
TeamRow(time, caller, country, duration) ==
    (H_Date :> Str(<<"0", "2", "/", "0", "1", "/", "2", "0", "2", "4">>) @@
     H_Time :> Str(time) @@
     H_Caller :> caller @@
     H_CountryName :> Str(country) @@
     H_CallDuration :> Str(duration))
TeamFile ==
    [columns |-> << H_Date, H_Time, H_Caller, H_CountryName, H_CallDuration >>,
     rows |-> <<
        TeamRow(<<"0", "9", ":", "0", "0">>,
                Str(<<"A", "y", "u", "s", "h", "m", "a", "a", "n">>),
                <<"I", "N">>, <<"1", ":", "0", "0">>),
        TeamRow(<<"0", "9", ":", "3", "0">>, NaN, <<"I", "N">>, <<"0", ":", "4", "5">>),
        TeamRow(<<"1", "1", ":", "0", "0">>,
                Str(<<"R", "i", "a", " ", "A", "r", "o", "r", "a">>),
                <<"U", "S">>, <<"2", ":", "0", "0">>),
        TeamRow(<<"1", "2", ":", "0", "0">>, Str(<<"X">>), <<"U", "S">>, <<"0", ":", "2", "0">>) >>]

\* the uploads of an app: any non-empty selection of records of its sample
\* file; the whole file without its duration column, without its time
\* column, without its agent column and without its country column; for
\* v2, v3 and v3.6 the whole file with the time of its first record blank;
\* for v3.6 also the team file, whole and with one record left out
Uploads(a) ==
    LET f == IF a = "v1" THEN SampleFileV1 ELSE SampleFile
        dcol == IF a = "v1" THEN H_Duration ELSE H_CallDuration
        tcol == IF a = "v1" THEN H_StartTime ELSE H_Time
        acol == IF a = "v1" THEN H_Agent ELSE H_Caller
        ccol == IF a = "v1" THEN H_Country ELSE H_CountryName
    IN  {pick_rows(f, I) : I \in (SUBSET DOMAIN f.rows) \ {{}}}
        \cup {drop_columns(f, {c}) : c \in {dcol, tcol, acol, ccol}}
        \cup (IF a = "v1" THEN {} ELSE {blank_cell(f, 1, H_Time)})
        \cup (IF a = "v3_6"
              THEN {pick_rows(TeamFile, I) :
                      I \in {J \in SUBSET DOMAIN TeamFile.rows : Cardinality(J) >= 3}}
              ELSE {})

\* pd.Timestamp.today(tz=TZ).date() during the session
Today == Date(2024, 1, 2)

DefaultThreshold == 60
\* slider positions exercised (the slider runs 10..300 in steps of 5)
Thresholds == {DefaultThreshold, 120}
\* values a date_input can return.  v1 opens it on a (min, max) range and
\* gets nothing, the start alone, or a (start, end) pair; v2, v3 and v3.6
\* open it with value=None, a single-date picker: nothing or one date
PickableDates == {Date(2024, 1, 1), Date(2024, 1, 2)}
DatePicks(a) ==
    {<<>>} \cup {<<d>> : d \in PickableDates}
           \cup (IF a = "v1"
                 THEN {p \in PickableDates \X PickableDates : NotAfter(p[1], p[2])}
                 ELSE {})
\* texts typed into the Column Mapping inputs of v1: nothing, another column
\* of the sample file, a name that is no column
NoMapping == [agent |-> <<>>, country |-> <<>>, duration |-> <<>>, start |-> <<>>]
MapTexts(r) ==
    IF r = "agent" THEN {<<>>, H_Duration, H_Rep}
    ELSE IF r = "duration" THEN {<<>>, H_Country, H_Rep}
    ELSE {<<>>, H_Rep}
MaxClicks == 2     \* widget interactions per session

----------------------------------------------------------------------------
(* The session: state after the upload, one action per widget.             *)

\* default of a multiselect of v2, v3 and v3.6: every option in v3.6 (and
\* for type / status in v3), the first ten options otherwise; None when the
\* column is absent
default_selection(a, df_, c, role) ==
    IF isna(c) THEN None
    ELSE IF a = "v3_6" \/ (a = "v3" /\ role \in {"type", "status"})
    THEN Sel(options(df_, c))
    ELSE Sel(first_ten(options(df_, c)))

\* v1 default of the date range: (min date, max date) of the parsed starts
default_dates_v1(df_) ==
    LET ds == {df_[i]._date_only : i \in {j \in DOMAIN df_ : ~isna(df_[j]._dt_local)}}
    IN  IF ds = {} THEN <<>>
        ELSE <<CHOOSE d \in ds : \A e \in ds : NotAfter(d, e),
               CHOOSE d \in ds : \A e \in ds : NotAfter(e, d)>>

\* the pickers of v1 as one run shows them: the (min, max) the date_input
\* opens on, the options of a multiselect; None when the run stops before
\* the picker (site is where the load raised), the column is unresolved or
\* no start time parsed
date_picker_v1(site, sc, dfr) ==
    IF site \in {"duration", "start"} \/ isna(sc.start) THEN None
    ELSE Only({IF dr = <<>> THEN None ELSE [kind |-> "dates", val |-> dr] :
                 dr \in {default_dates_v1(dfr)}})
agent_picker_v1(site, sc, dfr) ==
    IF site \in {"duration", "start", "agent"} \/ isna(sc.agent) THEN None
    ELSE Sel(options(dfr, sc.agent))
country_picker_v1(site, sc, dfr) ==
    IF site # "none" \/ isna(sc.country) THEN None
    ELSE Sel(options(dfr, sc.country))
pickers_v1(columns, sc, dfr) ==
    Only({[dates |-> date_picker_v1(site, sc, dfr),
           agents |-> agent_picker_v1(site, sc, dfr),
           countries |-> country_picker_v1(site, sc, dfr)] :
            site \in {load_site(columns, sc)}})
\* what a picker of v1 returns before the user touches it
first_value(p) ==
    IF p.kind = "none" THEN None
    ELSE IF p.kind = "dates" THEN p.val
    ELSE Sel(first_ten(p.val))

\* the widget values of the first run
defaults(a, columns, dfr, sc) ==
    IF a = "v1"
    THEN Only({[team_mode |-> "All agents", add_mt |-> FALSE,
                mode |-> "threshold", threshold |-> DefaultThreshold,
                preset |-> "Custom", map |-> NoMapping,
                custom |-> IF p.dates.kind = "dates" THEN p.dates.val ELSE <<>>,
                include_missing |-> TRUE,
                sel_agents |-> first_value(p.agents),
                sel_countries |-> first_value(p.countries),
                sel_types |-> None, sel_status |-> None] :
                  p \in {pickers_v1(columns, sc, dfr)}})
    ELSE [team_mode |-> "All agents",
          add_mt |-> FALSE,
          mode |-> IF a = "v2" THEN "threshold" ELSE "all",
          threshold |-> DefaultThreshold,
          preset |-> "Today",
          map |-> NoMapping,
          custom |-> <<>>,
          include_missing |-> TRUE,
          sel_agents |-> default_selection(a, dfr, sc.agent, "agent"),
          sel_countries |-> default_selection(a, dfr, sc.country, "country"),
          sel_types |-> default_selection(a, dfr, sc.type, "type"),
          sel_status |-> default_selection(a, dfr, sc.status, "status")]

\* Streamlit keeps the value of a widget from one run to the next while the
\* widget is built with the same arguments; a picker of v1 whose options (or
\* opening range) differ from those of the previous run, or that the
\* previous run did not show, starts from its default again.  The pickers
\* of v2, v3 and v3.6 are built from the upload alone and keep their values.
same_picker(p, q) == p.kind = q.kind /\ p = q
settled(columns, wd, sc0, df0, sc1, df1) ==
    Only({[wd EXCEPT
             !.custom = IF same_picker(before.dates, now.dates) THEN wd.custom
                        ELSE IF now.dates.kind = "dates" THEN now.dates.val ELSE <<>>,
             !.sel_agents = IF same_picker(before.agents, now.agents) THEN wd.sel_agents
                            ELSE first_value(now.agents),
             !.sel_countries = IF same_picker(before.countries, now.countries)
                               THEN wd.sel_countries
                               ELSE first_value(now.countries)] :
            before \in {pickers_v1(columns, sc0, df0)},
            now \in {pickers_v1(columns, sc1, df1)}})

\* Load & Prepare; in v1 a KeyError on the duration or the start column ends
\* the run before the derived columns exist
prepared(ver, up, sc) ==
    IF ver = "v1" /\ load_site(up.columns, sc) \in {"duration", "start"} THEN <<>>
    ELSE prepare(ver, up, sc)

\* the frame after the date filter, or the exception that ended the run on
\* the way there (in v1 the KeyError of the load and of the pickers)
dated_frame(ver, columns, dfr, sc, wd, now) ==
    IF ver = "v1" /\ load_outcome(columns, sc) # "ok"
    THEN Raised(load_outcome(columns, sc))
    ELSE date_stage(ver, dfr, sc, wd, now)

\* the frame after the team mask, unless the run has ended
teamed_frame(ver, dfr, sc, wd, dated) ==
    IF dated.kind = "frame" THEN team_stage(ver, dfr, sc, wd, dated.val) ELSE dated

\* how the run ends: an exception raised so far; KeyError on
\* df_f["_duration_sec"] (mode filter, KPI strip) when the team mask left a
\* frame without columns, which _apply_filter hands on as it is; "ok" when
\* the script reaches its last line
outcome(team) ==
    IF team.kind = "error" THEN team.val
    ELSE IF team.kind = "bare" THEN "KeyError"
    ELSE "ok"

\* what the page shows in place of a view that the run did not reach
NotShown == [kind |-> "absent", val |-> 0]

\* the KPI strip as the page shows it.  A run that ends before the strip
\* shows none of it.  On the frame without columns v3.6 in threshold mode
\* raises at the mode filter, before the strip; in "All calls" mode it copies
\* the frame, renders Total Calls = len(df_view) and raises on
\* df_view['_duration_sec'] in the next metric, so the strip stops after its
\* first figure.
kpi_strip(dfr, sc, wd, team, view) ==
    IF team.kind = "frame" THEN kpis(dfr, sc, view)
    ELSE IF team.kind = "bare" /\ wd.mode = "all"
    THEN [total_calls |-> Len(rows_of(team)),
          avg |-> NotShown, median |-> NotShown, agents |-> NotShown]
    ELSE NotShown

\* a file has been uploaded to one of the apps and the script has run once
\* with every widget at its default: Load & Prepare, the filter stages in
\* script order, then the views
Init ==
    /\ app \in Apps
    /\ upload \in Uploads(app)
    /\ today = Today
    /\ clicks = 0
    /\ cols = schema(app, upload.columns, NoMapping)
    /\ df = prepared(app, upload, cols)
    /\ w = defaults(app, upload.columns, df, cols)
    /\ \E dated \in {dated_frame(app, upload.columns, df, cols, w, today)} :
          /\ df_date = rows_of(dated)
          /\ \E team \in {teamed_frame(app, df, cols, w, dated)} :
                /\ df_team = rows_of(team)
                /\ err = outcome(team)
                /\ df_f = IF err = "ok" THEN categorical_stage(app, df, cols, w, df_team)
                          ELSE <<>>
                /\ df_view = IF err = "ok" THEN mode_stage(app, df, cols, w, df_f) ELSE <<>>
                /\ kpi = kpi_strip(df, cols, w, team, df_view)
    /\ tables = IF err = "ok" THEN views(app, df, cols, df_view) ELSE NotShown
    /\ attempts = IF err = "ok"
                  THEN attempts_by_hour(df, attempts_source(df_f, df_view))
                  ELSE NotShown
    /\ dur_in = NaN /\ dur_out = Pending
    /\ nm_name = NaN /\ nm_targets = <<>> /\ nm_out = Pending
    /\ SchemaOff
    /\ DatesOff

\* a run that filters what the previous run had retained
Rerun_narrows_previous_set(wd) ==
    /\ cols' = IF wd.map = w.map THEN cols ELSE schema(app, upload.columns, wd.map)
    /\ df' = IF wd.map = w.map THEN df ELSE prepared(app, upload, cols')
    /\ w' = IF wd.map = w.map THEN wd
            ELSE settled(upload.columns, wd, cols, df, cols', df')
    /\ \E dated \in {dated_frame(app, upload.columns, df', cols', w', today)} :
          /\ df_date' = SelectSeq(rows_of(dated), LAMBDA i : i \in Range(df_f))
          /\ \E team \in {teamed_frame(app, df', cols', w',
                                       IF dated.kind = "frame" THEN Frame(df_date')
                                       ELSE dated)} :
                /\ df_team' = rows_of(team)
                /\ err' = outcome(team)
                /\ df_f' = IF err' = "ok"
                           THEN categorical_stage(app, df', cols', w', df_team') ELSE <<>>
                /\ df_view' = IF err' = "ok" THEN mode_stage(app, df', cols', w', df_f')
                              ELSE <<>>
                /\ kpi' = kpi_strip(df', cols', w', team, df_view')
    /\ tables' = IF err' = "ok" THEN views(app, df', cols', df_view') ELSE NotShown
    /\ attempts' = IF err' = "ok"
                   THEN attempts_by_hour(df', attempts_source(df_f', df_view'))
                   ELSE NotShown

\* the script again, top to bottom, with the widget values wd.  Column
\* resolution and Load & Prepare are functions of the upload and of the
\* mapping texts alone, so a run with the mapping texts of the previous run
\* computes the schema, the working table and the pickers of that run again.
Rerun(wd) ==
    /\ cols' = IF wd.map = w.map THEN cols ELSE schema(app, upload.columns, wd.map)
    /\ df' = IF wd.map = w.map THEN df ELSE prepared(app, upload, cols')
    /\ w' = IF wd.map = w.map THEN wd
            ELSE settled(upload.columns, wd, cols, df, cols', df')
    /\ \E dated \in {dated_frame(app, upload.columns, df', cols', w', today)} :
          /\ df_date' = rows_of(dated)
          /\ \E team \in {teamed_frame(app, df', cols', w', dated)} :
                /\ df_team' = rows_of(team)
                /\ err' = outcome(team)
                /\ df_f' = IF err' = "ok"
                           THEN categorical_stage(app, df', cols', w', df_team') ELSE <<>>
                /\ df_view' = IF err' = "ok" THEN mode_stage(app, df', cols', w', df_f')
                              ELSE <<>>
                /\ kpi' = kpi_strip(df', cols', w', team, df_view')
    /\ tables' = IF err' = "ok" THEN views(app, df', cols', df_view') ELSE NotShown
    /\ attempts' = IF err' = "ok"
                   THEN attempts_by_hour(df', attempts_source(df_f', df_view'))
                   ELSE NotShown

\* a widget change: the new widget values, then the whole script again
Change(wd) ==
    /\ clicks < MaxClicks
    /\ wd # w
    /\ clicks' = clicks + 1
    /\ Rerun(wd)
    /\ UNCHANGED <<app, upload, today, dur_in, dur_out, nm_name, nm_targets, nm_out, sch, dparse>>

\* the Column Mapping text inputs of v1
SetMapAgent ==
    /\ app = "v1"
    /\ \E t \in MapTexts("agent") : Change([w EXCEPT !.map.agent = t])

SetMapCountry ==
    /\ app = "v1"
    /\ \E t \in MapTexts("country") : Change([w EXCEPT !.map.country = t])

SetMapDuration ==
    /\ app = "v1"
    /\ \E t \in MapTexts("duration") : Change([w EXCEPT !.map.duration = t])

SetMapStart ==
    /\ app = "v1"
    /\ \E t \in MapTexts("start") : Change([w EXCEPT !.map.start = t])

SetTeamMode ==
    /\ app = "v3_6"
    /\ \E v \in {"All agents", "B2C team only"} : Change([w EXCEPT !.team_mode = v])

SetAddMT ==
    /\ app = "v3_6"
    /\ \E v \in BOOLEAN : Change([w EXCEPT !.add_mt = v])

SetIncludeMissing ==
    /\ app = "v3_6"
    /\ \E v \in BOOLEAN : Change([w EXCEPT !.include_missing = v])

SetMode == \E v \in {"all", "threshold"} : Change([w EXCEPT !.mode = v])

SetThreshold == \E t \in Thresholds : Change([w EXCEPT !.threshold = t])

\* the date_input exists only under "Custom" and starts empty
SetPreset ==
    /\ app # "v1"
    /\ \E p \in {"Today", "Yesterday", "Custom"} :
          Change([w EXCEPT !.preset = p, !.custom = <<>>])

\* v1 shows its date_input only when some start time parsed
PickDates ==
    /\ IF app = "v1" THEN pickers_v1(upload.columns, cols, df).dates.kind = "dates"
       ELSE w.preset = "Custom"
    /\ \E c \in DatePicks(app) : Change([w EXCEPT !.custom = c])

SelectAgents ==
    /\ w.sel_agents # None
    /\ \E S \in SUBSET options(df, cols.agent) :
          Change([w EXCEPT !.sel_agents = Sel(S)])

SelectCountries ==
    /\ w.sel_countries # None
    /\ \E S \in SUBSET options(df, cols.country) :
          Change([w EXCEPT !.sel_countries = Sel(S)])

SelectTypes ==
    /\ w.sel_types # None
    /\ \E S \in SUBSET options(df, cols.type) :
          Change([w EXCEPT !.sel_types = Sel(S)])

SelectStatus ==
    /\ w.sel_status # None
    /\ \E S \in SUBSET options(df, cols.status) :
          Change([w EXCEPT !.sel_status = Sel(S)])

Next ==
    \/ SetMapAgent \/ SetMapCountry \/ SetMapDuration \/ SetMapStart
    \/ SetTeamMode \/ SetAddMT \/ SetIncludeMissing
    \/ SetMode \/ SetThreshold
    \/ SetPreset \/ PickDates
    \/ SelectAgents \/ SelectCountries \/ SelectTypes \/ SelectStatus

Spec == Init /\ [][Next]_vars

----------------------------------------------------------------------------
(* Properties of the session.                                              *)

\* the grouping columns of each table
TableNames == {"agent", "country", "matrix"}
dims_roles(t) ==
    IF t = "agent" THEN <<"agent">>
    ELSE IF t = "country" THEN <<"country">>
    ELSE <<"agent", "country">>
dims_of(t) ==
    IF t = "agent" THEN <<cols.agent.val>>
    ELSE IF t = "country" THEN <<cols.country.val>>
    ELSE <<cols.agent.val, cols.country.val>>

\* the run reached the views and table t is shown (not reported unavailable)
shown(t) == err = "ok" /\ tables[t].ok

\* the tables that carry a count column (the v1 pivot has the sum only)
HasCount(t) == shown(t) /\ ~(app = "v1" /\ t = "matrix")

\* the records of the view in the group of key k
group_rows(t, k) == SelectSeq(df_view, LAMBDA i : KeyOf(df, i, dims_of(t)) = k)

\* C1: every aggregate table holds exactly one row per distinct combination
\* of dimension values present in the aggregated records, a missing value
\* forming a group of its own, and the counts of a table add up to the
\* number of aggregated records.
C1_OneRowPerGroupCountsSumToTotal ==
    \A t \in TableNames :
        shown(t) =>
            LET rows == tables[t].rows
                keys == {KeyOf(df, df_view[p], dims_of(t)) : p \in DOMAIN df_view}
            IN  /\ {rows[p].key : p \in DOMAIN rows} = keys
                /\ Len(rows) = Cardinality(keys)
                /\ HasCount(t) =>
                       SumSeq([p \in DOMAIN rows |-> rows[p].count]) = Len(df_view)

\* C2: in every table row the count is the number of records of the group,
\* records with a missing duration included, and mean and median are taken
\* over the non-missing durations of the group.
C2_CountCountsRowsMeanSkipsMissing ==
    \A t \in TableNames :
        HasCount(t) =>
            \A p \in DOMAIN tables[t].rows :
                LET r == tables[t].rows[p]
                    g == group_rows(t, r.key)
                IN  /\ r.count = Len(g)
                    /\ r.mean = series_mean(durations(df, g))
                    /\ r.median = series_median(durations(df, g))

\* the records of the filtered set whose parsed duration is at least T
qualifying(T) ==
    SelectSeq(df_f, LAMBDA i :
        df[i]._duration_sec.kind = "num" /\ df[i]._duration_sec.val >= T)

\* the threshold scenario: the filtered set is A 60 s, A 30 s, B 120 s and
\* the threshold is 60
NameA == Str(<<"A">>)
NameB == Str(<<"B">>)
ScenarioFiltered ==
    /\ ~isna(cols.agent)
    /\ w.threshold = 60
    /\ [p \in DOMAIN df_f |->
           <<df[df_f[p]].cells[cols.agent.val], df[df_f[p]]._duration_sec>>]
       = << <<NameA, Num(60)>>, <<NameA, Num(30)>>, <<NameB, Num(120)>> >>
ScenarioResult ==
    {[key |-> tables.agent.rows[p].key, count |-> tables.agent.rows[p].count,
      sum |-> tables.agent.rows[p].sum] : p \in DOMAIN tables.agent.rows}
    = {[key |-> <<NameA>>, count |-> 1, sum |-> 60],
       [key |-> <<NameB>>, count |-> 1, sum |-> 120]}

\* C3: in threshold mode the aggregated view is exactly the records of the
\* filtered set whose parsed duration is >= T (equal included, shorter and
\* missing excluded); in the scenario the agent table is A: 1 / 60 and
\* B: 1 / 120.
C3_ThresholdViewIsQualifyingCalls ==
    w.mode = "threshold" =>
        /\ df_view = qualifying(w.threshold)
        /\ ScenarioFiltered => ScenarioResult

\* C3 as the code has it: the same, whenever a duration column is resolved;
\* v1 without a resolved duration column cannot filter and its view is the
\* whole filtered set.
C3_ThresholdViewWhenDurationResolved ==
    w.mode = "threshold" =>
        /\ IF app = "v1" /\ isna(cols.duration)
           THEN df_view = df_f
           ELSE df_view = qualifying(w.threshold)
        /\ ScenarioFiltered => ScenarioResult

C3_Witness ==
    /\ w.mode = "threshold" /\ ScenarioFiltered /\ ScenarioResult
    /\ Len(df_view) = 2

\* the widget values with the mode and the threshold blanked out
other_filters(wd) == [wd EXCEPT !.mode = "all", !.threshold = DefaultThreshold]

\* a step that changes at most the mode and the threshold leaves the
\* attempts-by-hour table as it was
attempts_ignore_mode ==
    (app' = app /\ upload' = upload /\ today' = today
        /\ other_filters(w') = other_filters(w)) => attempts' = attempts

\* record i meets the threshold
meets_threshold(i) ==
    df[i]._duration_sec.kind = "num" /\ df[i]._duration_sec.val >= w.threshold

\* the aggregates hold the qualifying calls and nothing else: every record
\* of the view meets the threshold, Total Calls is the number of qualifying
\* calls, and every table has one row per group of qualifying calls, with
\* their sum and their number
aggregates_only_qualifying ==
    /\ \A i \in Range(df_view) : meets_threshold(i)
    /\ kpi.total_calls = Len(qualifying(w.threshold))
    /\ \A t \in TableNames :
          shown(t) =>
              /\ {tables[t].rows[p].key : p \in DOMAIN tables[t].rows}
                    = {KeyOf(df, qualifying(w.threshold)[n], dims_of(t)) :
                          n \in DOMAIN qualifying(w.threshold)}
              /\ \A p \in DOMAIN tables[t].rows :
                    LET r == tables[t].rows[p]
                        q == SelectSeq(qualifying(w.threshold), LAMBDA i :
                                 KeyOf(df, i, dims_of(t)) = r.key)
                    IN  /\ q # <<>>
                        /\ r.sum = SumSeq(durations(df, q))
                        /\ HasCount(t) => r.count = Len(q)

\* C4 (as claimed): with the records and all other filters fixed, a change
\* of the mode or of the threshold leaves every attempts-by-hour count as it
\* was, while in threshold mode the aggregates (view, Total Calls, tables)
\* contain only calls of the filtered set that meet the threshold.
C4_AttemptsFixedAggregatesQualifying ==
    /\ [][attempts_ignore_mode]_vars
    /\ []((err = "ok" /\ w.mode = "threshold") => aggregates_only_qualifying)

\* C4 as the code has it: the same, the aggregates whenever a duration
\* column is resolved; v1 without one cannot apply the threshold, so that
\* its view is the whole filtered set, Total Calls counts every call of it
\* and every group of it is a table row.
C4_AttemptsIgnoreModeAndThreshold ==
    /\ [][attempts_ignore_mode]_vars
    /\ []((err = "ok" /\ w.mode = "threshold") =>
            IF app = "v1" /\ isna(cols.duration)
            THEN /\ df_view = df_f
                 /\ kpi.total_calls = Len(df_f)
                 /\ \A t \in TableNames :
                       shown(t) =>
                           {tables[t].rows[p].key : p \in DOMAIN tables[t].rows}
                               = {KeyOf(df, i, dims_of(t)) : i \in Range(df_f)}
            ELSE aggregates_only_qualifying)

\* the mode or the threshold was changed, a call is filtered out of the view
\* and it is still counted in the attempts
C4_Witness ==
    /\ w.mode # defaults(app, upload.columns, df, cols).mode \/ w.threshold # DefaultThreshold
    /\ w.mode = "threshold"
    /\ Len(df_view) < Len(df_f)
    /\ attempts # <<>>
    /\ SumSeq([k \in DOMAIN attempts |-> attempts[k].Attempts]) > Len(df_view)

\* the four categorical filters of the sidebar
Roles == {"agent", "country", "type", "status"}
col_of(r) == cols[r]
sel_of(r) ==
    IF r = "agent" THEN w.sel_agents
    ELSE IF r = "country" THEN w.sel_countries
    ELSE IF r = "type" THEN w.sel_types
    ELSE w.sel_status
cell_of(r, i) == df[i].cells[col_of(r).val]

\* a non-empty proper subset of the options is selected
Restricted(r) ==
    /\ ~isna(col_of(r)) /\ sel_of(r) # None
    /\ sel_of(r).val # {}
    /\ sel_of(r).val # options(df, col_of(r))
    /\ sel_of(r).val \subseteq options(df, col_of(r))

\* row i gets through the filter on r with include_missing on: no filter
\* (column absent or nothing selected), value missing, or value selected
passes(r, i) ==
    \/ isna(col_of(r)) \/ sel_of(r) = None
    \/ sel_of(r).val = {}
    \/ isna(cell_of(r, i))
    \/ astype_str(cell_of(r, i)) \in sel_of(r).val

\* C5: with include_missing on and a restricted selection on a field, every
\* row whose field is present but not selected is dropped, and every row
\* whose field is missing or selected is retained (as far as the other three
\* filters let it through); for agent, country, call type and call status.
C5_IncludeMissingKeepsBlankRows ==
    (app = "v3_6" /\ w.include_missing) =>
        \A r \in Roles :
            Restricted(r) =>
                /\ \A p \in DOMAIN df_f :
                       \/ isna(cell_of(r, df_f[p]))
                       \/ astype_str(cell_of(r, df_f[p])) \in sel_of(r).val
                /\ \A p \in DOMAIN df_team :
                       (\A r2 \in Roles : passes(r2, df_team[p]))
                           => df_team[p] \in Range(df_f)

\* a restricted agent selection that keeps a blank agent, keeps a selected
\* agent and drops an unselected one
C5_Witness ==
    /\ app = "v3_6" /\ w.include_missing /\ Restricted("agent")
    /\ \E p \in DOMAIN df_f : isna(cell_of("agent", df_f[p]))
    /\ \E p \in DOMAIN df_f : ~isna(cell_of("agent", df_f[p]))
    /\ \E p \in DOMAIN df_team : df_team[p] \notin Range(df_f)

\* the window [start, end) the date filter of the run is given, as local
\* instants: v1 builds (start 00:00, end + 1 day 00:00) from the range
\* picked (l.161-165), v2 and v3 build (day 00:00, day + 1 day 00:00) from
\* the preset day, or from a complete custom pair as v1 does (v3 l.55-68),
\* and v3.6 hands filter_by_date the two dates date_preset_bounds returns,
\* the preset day as start and as end (l.58-70); <<>> when the run applies
\* no window
FilterWindow ==
    IF app = "v1"
    THEN IF Len(w.custom) = 2 /\ ~isna(cols.start)
         THEN <<Midnight(w.custom[1]), Midnight(next_day(w.custom[2]))>>
         ELSE <<>>
    ELSE IF w.preset = "Today"
    THEN <<Midnight(today),
           IF app = "v3_6" THEN Midnight(today) ELSE Midnight(next_day(today))>>
    ELSE IF w.preset = "Yesterday"
    THEN <<Midnight(prev_day(today)),
           IF app = "v3_6" THEN Midnight(prev_day(today)) ELSE Midnight(today)>>
    ELSE IF Len(w.custom) # 2 THEN <<>>
    ELSE <<Midnight(w.custom[1]),
           IF app = "v3_6" THEN Midnight(w.custom[2])
           ELSE Midnight(next_day(w.custom[2]))>>

\* record i has a local instant and it lies in [start, end)
in_half_open(i, start, end) ==
    /\ ~isna(df[i]._dt_local)
    /\ NotAfter(start, df[i]._dt_local)
    /\ Before(df[i]._dt_local, end)

\* C6: the date window is half-open: of the window [start, end) the filter
\* is given, only records whose local instant lies in [start 00:00,
\* end 00:00) are retained, so a record dated on the end date is not.
C6_DateWindowExcludesEndDate ==
    (err = "ok" /\ FilterWindow # <<>>) =>
        \A p \in DOMAIN df_date :
            in_half_open(df_date[p], FilterWindow[1], FilterWindow[2])

\* C14: on every record of the prepared frame the local hour is defined
\* exactly when the local instant is, and a defined hour is an integer in
\* 0..23; so also in a file without the date / time columns and on records
\* whose instant could not be built.
C14_HourDefinedIffInstant ==
    \A i \in DOMAIN df :
        /\ isna(df[i]._hour) <=> isna(df[i]._dt_local)
        /\ ~isna(df[i]._hour) => df[i]._hour.kind = "num" /\ df[i]._hour.val \in 0..23

\* a frame with a record whose instant could not be built next to one with
\* an instant and its hour
C14_Witness ==
    /\ \E i \in DOMAIN df : isna(df[i]._dt_local) /\ isna(df[i]._hour)
    /\ \E i \in DOMAIN df : ~isna(df[i]._dt_local) /\ df[i]._hour = Num(23)

\* the rows of table t whose group is a single record of the view
single_row_groups(t) ==
    {p \in DOMAIN tables[t].rows : Len(group_rows(t, tables[t].rows[p].key)) = 1}
\* the duration of the one record of such a group
only_duration(t, p) == df[group_rows(t, tables[t].rows[p].key)[1]]._duration_sec

\* C15 (as claimed): a group made of a single record has count 1, and its
\* sum, mean and median are that record's duration, whatever the record.
C15_SingleRowGroupRoundTrip ==
    \A t \in TableNames :
        HasCount(t) =>
            \A p \in single_row_groups(t) :
                /\ tables[t].rows[p].count = 1
                /\ Num(tables[t].rows[p].sum) = only_duration(t, p)
                /\ tables[t].rows[p].mean = only_duration(t, p)
                /\ tables[t].rows[p].median = only_duration(t, p)

\* C15 (amended): a group made of a single record whose duration is not
\* missing has count 1, and its sum, mean and median are that duration.
C15_SingleRowGroupWithDuration ==
    \A t \in TableNames :
        HasCount(t) =>
            \A p \in single_row_groups(t) :
                ~isna(only_duration(t, p)) =>
                    /\ tables[t].rows[p].count = 1
                    /\ Num(tables[t].rows[p].sum) = only_duration(t, p)
                    /\ tables[t].rows[p].mean = only_duration(t, p)
                    /\ tables[t].rows[p].median = only_duration(t, p)

\* a view of several records in which agent B is a group of one record of
\* 120 seconds
C15_Witness ==
    /\ HasCount("agent")
    /\ Len(df_view) >= 2
    /\ \E p \in single_row_groups("agent") :
          /\ tables.agent.rows[p].key = <<NameB>>
          /\ only_duration("agent", p) = Num(120)
          /\ tables.agent.rows[p].count = 1

\* the widgets put a date constraint on the records: a preset day, or a
\* complete start / end pick (in v1 only when a start column is resolved)
date_constrained ==
    \/ w.preset \in {"Today", "Yesterday"}
    \/ Len(w.custom) = 2 /\ (app = "v1" => ~isna(cols.start))

\* the temporal field of a record that the date filter of the app reads:
\* the date in v3.6, the local instant elsewhere
temporal(i) == IF app = "v3_6" THEN df[i]._date_only ELSE df[i]._dt_local

\* C16 (as claimed): without a date constraint (the Custom preset without a
\* complete start / end pair) every record passes the date stage, those with
\* a missing instant or date included; with a date constraint no record with
\* missing temporal data remains.
C16_MissingDatesDroppedOnlyUnderConstraint ==
    err = "ok" =>
        /\ ~date_constrained => df_date = all_rows(df)
        /\ date_constrained => \A p \in DOMAIN df_date : ~isna(temporal(df_date[p]))

\* the agent of record i is on the MT roster / on the B2C roster
on_mt_roster(i) == mask_for_targets(df, cols, i, MTTEAM_TARGETS)
on_b2c_roster(i) == mask_for_targets(df, cols, i, B2C_TARGETS)

\* a step that switches the MT flag on and leaves the file, the clock and
\* every other widget as they were
MTFlagSwitchedOn ==
    /\ app' = app /\ upload' = upload /\ today' = today
    /\ ~w.add_mt
    /\ w' = [w EXCEPT !.add_mt = TRUE]

\* C17: switching the MT flag on only adds records: the filtered set with
\* the flag on contains the filtered set with the flag off, the team stage
\* gains exactly the records (of its input) whose agent is on the MT roster,
\* nothing else enters the filtered set, and under the base selection
\* "All agents" nothing changes.
C17_MTFlagOnlyAdds ==
    [][MTFlagSwitchedOn =>
        /\ Range(df_f) \subseteq Range(df_f')
        /\ Range(df_team') = Range(df_team) \cup {i \in Range(df_date) : on_mt_roster(i)}
        /\ \A i \in Range(df_f') \ Range(df_f) : on_mt_roster(i)
        /\ w.team_mode = "All agents" => df_f' = df_f]_vars

\* B2C team only with the MT flag on: a record of an agent on the MT roster
\* and not on the B2C roster is in the filtered set, a record of an agent on
\* neither roster is not
C17_Witness ==
    /\ app = "v3_6" /\ w.team_mode = "B2C team only" /\ w.add_mt
    /\ \E i \in Range(df_f) : on_mt_roster(i) /\ ~on_b2c_roster(i)
    /\ \E i \in Range(df_date) \ Range(df_team) : ~on_mt_roster(i)
    /\ \E i \in Range(df_f) : on_b2c_roster(i) /\ ~on_mt_roster(i)

\* the records entering the team stage whose agent value is missing
unattributed ==
    IF isna(cols.agent) THEN {}
    ELSE {i \in Range(df_date) : isna(df[i].cells[cols.agent.val])}

\* C18: under the base selection "B2C team only" a record with a missing
\* agent value is kept by the team stage exactly when include_missing is on;
\* and with include_missing on it gets through the agent selection too, so
\* that it is in the filtered set unless a filter on another field drops it.
C18_IncludeMissingReinstatesUnattributed ==
    (app = "v3_6" /\ w.team_mode = "B2C team only") =>
        \A i \in unattributed :
            /\ i \in Range(df_team) <=> w.include_missing
            /\ (w.include_missing /\ \A r \in Roles \ {"agent"} : passes(r, i))
                   => i \in Range(df_f)

\* B2C team only, include_missing on, a proper selection of agents: the
\* unattributed record is in the filtered set, a record of an agent outside
\* the B2C team is not
C18_Witness ==
    /\ app = "v3_6" /\ w.team_mode = "B2C team only" /\ w.include_missing
    /\ Restricted("agent")
    /\ \E i \in unattributed : i \in Range(df_f)
    /\ \E i \in Range(df_date) \ unattributed : i \notin Range(df_team)

\* the apps whose tables rank by calls first (agg_summary of v3 and v3.6);
\* v2 and v1 rank by duration alone
RanksByCalls == app \in {"v3", "v3_6"}

\* C19: in every table each row is followed by a row that does not rank
\* above it: by count descending and, among equal counts, by sum descending
\* in v3 and v3.6; by sum descending alone in v2 and v1.
C19_RowsRankedDescending ==
    \A t \in TableNames :
        shown(t) =>
            \A p \in 1..(Len(tables[t].rows) - 1) :
                LET r1 == tables[t].rows[p]
                    r2 == tables[t].rows[p + 1]
                IN  IF RanksByCalls
                    THEN \/ r1.count > r2.count
                         \/ r1.count = r2.count /\ r1.sum >= r2.sum
                    ELSE r1.sum >= r2.sum

\* two agents with equal counts: the one with the larger sum is listed
\* first although its name sorts later
C19_Witness ==
    /\ RanksByCalls /\ shown("agent")
    /\ Len(tables.agent.rows) >= 2
    /\ tables.agent.rows[1].count = tables.agent.rows[2].count
    /\ tables.agent.rows[1].sum > tables.agent.rows[2].sum
    /\ KeyLess(tables.agent.rows[2].key, tables.agent.rows[1].key)

\* the records of the view with a duration, and those of one group of table t
timed_records(rows) == {i \in Range(rows) : ~isna(df[i]._duration_sec)}
has_no_duration(t, p) == timed_records(group_rows(t, tables[t].rows[p].key)) = {}

\* C20: a table row whose group has no record with a duration reports its
\* mean and its median as the missing marker, never as zero, and so do the
\* average and median of the KPI strip when no record of the view has a
\* duration; with a duration present they are numbers.
C20_NoDurationMeansMissingMarker ==
    /\ \A t \in TableNames :
          HasCount(t) =>
              \A p \in DOMAIN tables[t].rows :
                  /\ isna(tables[t].rows[p].mean) <=> has_no_duration(t, p)
                  /\ isna(tables[t].rows[p].median) <=> has_no_duration(t, p)
    /\ err = "ok" =>
          /\ isna(kpi.avg) <=> timed_records(df_view) = {}
          /\ isna(kpi.median) <=> timed_records(df_view) = {}

\* a view with records in which one agent's only calls have no duration,
\* next to an agent with a mean; and a non-empty view with no duration at all
C20_Witness ==
    /\ HasCount("agent")
    /\ \E p \in DOMAIN tables.agent.rows :
          /\ has_no_duration("agent", p)
          /\ group_rows("agent", tables.agent.rows[p].key) # <<>>
          /\ tables.agent.rows[p].mean = NaN /\ tables.agent.rows[p].median = NaN
          /\ tables.agent.rows[p].sum = 0
    /\ \E p \in DOMAIN tables.agent.rows : ~isna(tables.agent.rows[p].mean)
    /\ err = "ok" /\ ~isna(kpi.avg)

\* the KPI strip of a non-empty view none of whose records has a duration
C20_WitnessKpi ==
    /\ err = "ok" /\ df_view # <<>> /\ timed_records(df_view) = {}
    /\ kpi.avg = NaN /\ kpi.median = NaN

----------------------------------------------------------------------------
(* DateParser: the parsing of the Date column, on its own.                 *)

\* date texts: the ambiguous 03/04/2024, 13/04/2024 (day-first only),
\* 04/13/2024 (month-first only), the ISO texts 2024-01-02 and 2023-12-31,
\* an unreadable text and a blank cell
DateTexts ==
    {Str(<<"0", "3", "/", "0", "4", "/", "2", "0", "2", "4">>),
     Str(<<"1", "3", "/", "0", "4", "/", "2", "0", "2", "4">>),
     Str(<<"0", "4", "/", "1", "3", "/", "2", "0", "2", "4">>),
     Str(<<"2", "0", "2", "4", "-", "0", "1", "-", "0", "2">>),
     Str(<<"2", "0", "2", "3", "-", "1", "2", "-", "3", "1">>),
     Str(<<"x">>), NaN}
DateColumns == UNION {[1..n -> DateTexts] : n \in 1..MaxDates}
DateApps == {"v2", "v3", "v3_6"}

\* the dates of the Date column as the script reads them: parse_date_best in
\* v3.6, pd.to_datetime(date_col, dayfirst=False) in v2 and v3
parsed_dates(ver, col) ==
    IF ver = "v3_6" THEN parse_date_best(col) ELSE to_datetime_col(col, FALSE)

DatesInit ==
    /\ dp_app \in DateApps
    /\ dp_col \in DateColumns
    /\ dp_out = Pending
    /\ dur_in = NaN /\ dur_out = Pending
    /\ nm_name = NaN /\ nm_targets = <<>> /\ nm_out = Pending
    /\ DashOff
    /\ SchemaOff

ParseDates ==
    /\ dp_out = Pending
    /\ dp_out' = [kind |-> "dates", val |-> parsed_dates(dp_app, dp_col)]
    /\ UNCHANGED <<dp_app, dp_col, dur_in, dur_out, nm_name, nm_targets, nm_out, dash, sch>>

DatesNext == ParseDates
SpecDates == DatesInit /\ [][DatesNext]_vars

\* one text under a single interpretation of the whole column; an ISO text
\* is year-month-day under both
read_as(x, dayfirst) ==
    IF ~isna(strptime_date(x, "iso")) THEN strptime_date(x, "iso")
    ELSE strptime_date(x, IF dayfirst THEN "dmy" ELSE "mdy")
\* the cells with a text that the interpretation does not read
parse_failures(col, dayfirst) ==
    Cardinality({i \in DOMAIN col : ~isna(col[i]) /\ isna(read_as(col[i], dayfirst))})

\* C21 (as claimed): the parsed Date column is the reading of every row
\* under one interpretation, day-first or month-first, and that
\* interpretation fails on no more rows of the column than the other one.
C21_OneInterpretationWithFewerFailures ==
    dp_out # Pending =>
        \E dayfirst \in BOOLEAN :
            /\ dp_out.val = [i \in DOMAIN dp_col |-> read_as(dp_col[i], dayfirst)]
            /\ parse_failures(dp_col, dayfirst) <= parse_failures(dp_col, ~dayfirst)

\* the date and the hour written in the zone-less input of record i: the
\* "YYYY-MM-DD HH:MM" text of the start column in v1, the Date and Time cells
\* in v2, v3 and v3.6
written_date_text(i) ==
    IF app = "v1" THEN SubSeq(upload.rows[i][cols.start.val].val, 1, 10)
    ELSE upload.rows[i][cols.date.val].val
written_time_text(i) ==
    IF app = "v1"
    THEN SubSeq(upload.rows[i][cols.start.val].val, 12,
                Len(upload.rows[i][cols.start.val].val))
    ELSE upload.rows[i][cols.time.val].val
written_date(i) ==
    Date(DecVal(SubSeq(written_date_text(i), 1, 4)),
         DecVal(SubSeq(written_date_text(i), 6, 7)),
         DecVal(SubSeq(written_date_text(i), 9, 10)))
written_hour(i) == Num(DecVal(SubSeq(written_time_text(i), 1, 2)))

\* C22 (as claimed): a record whose zone-less input gave a local instant has
\* the hour written in the input as its local hour and, as its local date,
\* the date written in the start time (v1) or parsed from the Date cell
\* (v2, v3, v3.6): no offset moves the hour or the day.
C22_ZonelessInputIsLocalWallClock ==
    \A i \in DOMAIN df :
        ~isna(df[i]._dt_local) =>
            /\ df[i]._hour = written_hour(i)
            /\ date_of(df[i]._dt_local) = df[i]._date_only
            /\ app = "v1" => df[i]._date_only = written_date(i)

\* the roles an app looks for in the header of the upload
RolesRead ==
    IF app = "v1" THEN SchemaRoles
    ELSE {"date", "time", "agent", "country", "type", "status", "duration"}

\* C23 (as claimed): with no Column Mapping text given, a role that is not
\* found in the header does not stop the run: the KPI strip and the tables
\* are produced; a table is unavailable exactly when one of its roles is
\* unresolved, and a table that is available has one row per key of the
\* view; no record is dropped by the filter of an unresolved role (a record
\* dropped by the categorical filters is excluded by the selection on a
\* resolved role); and in v1 an unresolved duration leaves the threshold
\* unapplied and an unresolved start time leaves the date range unapplied.
C23_UnresolvedRoleDegrades ==
    (w.map = NoMapping /\ \E r \in RolesRead : isna(cols[r])) =>
        /\ err = "ok"
        /\ shown("agent") <=> ~isna(cols.agent)
        /\ shown("country") <=> ~isna(cols.country)
        /\ shown("matrix") <=> (~isna(cols.agent) /\ ~isna(cols.country))
        /\ \A t \in TableNames :
              shown(t) =>
                  {tables[t].rows[p].key : p \in DOMAIN tables[t].rows}
                      = {KeyOf(df, i, dims_of(t)) : i \in Range(df_view)}
        /\ \A r \in Roles : isna(col_of(r)) => sel_of(r) = None
        /\ \A i \in Range(df_team) \ Range(df_f) :
              \E r \in Roles :
                  /\ ~isna(col_of(r)) /\ sel_of(r) # None
                  /\ astype_str(cell_of(r, i)) \notin sel_of(r).val
        /\ app = "v1" =>
              /\ isna(cols.duration) => df_view = df_f
              /\ isna(cols.start) => df_date = all_rows(df)

\* the calendar date in the Date cell of record i (v2, v3, v3.6), and the
\* first and last date of the window the widgets ask for
date_cell(i) == IF isna(cols.date) THEN NaN ELSE upload.rows[i][cols.date.val]
date_value(i) == strptime_date(date_cell(i), "iso")
window_start ==
    IF w.preset = "Today" THEN today
    ELSE IF w.preset = "Yesterday" THEN prev_day(today) ELSE w.custom[1]
window_end ==
    IF w.preset = "Today" THEN today
    ELSE IF w.preset = "Yesterday" THEN prev_day(today) ELSE w.custom[2]
in_date_window(d) ==
    ~isna(d) /\ NotAfter(window_start, d) /\ NotAfter(d, window_end)

\* C24 (as claimed): under a date constraint a record passes the date stage
\* exactly when the calendar date of its Date cell lies in the window,
\* whatever its Time cell holds, so that two records of the same date get the
\* same decision; a record with a date and no usable time that reaches the
\* view has its key in every table.
C24_WindowDecidesOnDateAlone ==
    (app \in {"v2", "v3", "v3_6"} /\ err = "ok" /\ date_constrained) =>
        /\ \A i \in DOMAIN df : \A j \in DOMAIN df :
               date_cell(i) = date_cell(j) =>
                   (i \in Range(df_date) <=> j \in Range(df_date))
        /\ \A i \in DOMAIN df :
               (isna(df[i]._dt_local) /\ in_date_window(date_value(i)))
                   => i \in Range(df_date)
        /\ \A i \in Range(df_view) :
               isna(df[i]._dt_local) =>
                   /\ isna(df[i]._hour)
                   /\ \A t \in TableNames :
                          shown(t) =>
                              \E p \in DOMAIN tables[t].rows :
                                  tables[t].rows[p].key = KeyOf(df, i, dims_of(t))

\* The result of one interaction, stated record by record from the upload,
\* the present widget values and the current date, without the stages of
\* the script.

\* record i is inside the days the widgets ask for: v2 and v3 list records
\* with a local instant only and look at its day, v1 looks at the day of the
\* instant, v3.6 at the date
date_keeps(i) ==
    /\ app \in {"v2", "v3"} => ~isna(df[i]._dt_local)
    /\ date_constrained =>
          in_date_window(IF app = "v3_6" THEN df[i]._date_only
                         ELSE date_of(df[i]._dt_local))

\* record i belongs to the team selection of v3.6
team_keeps(i) ==
    app = "v3_6" =>
        \/ w.team_mode = "All agents"
        \/ on_b2c_roster(i)
        \/ w.add_mt /\ on_mt_roster(i)
        \/ w.include_missing /\ ~isna(cols.agent) /\ isna(cell_of("agent", i))

\* record i gets through the filter on role r as the running app applies it
kept_by(r, i) ==
    \/ isna(col_of(r)) \/ sel_of(r) = None
    \/ sel_of(r).val = {} /\ app # "v1"
    \/ astype_str(cell_of(r, i)) \in sel_of(r).val
    \/ app = "v3_6" /\ w.include_missing /\ isna(cell_of(r, i))

\* the threshold applies to the view
threshold_applies == w.mode = "threshold" /\ ~(app = "v1" /\ isna(cols.duration))

ExpectedDated == {i \in DOMAIN upload.rows : date_keeps(i)}
ExpectedTeam == {i \in ExpectedDated : team_keeps(i)}
ExpectedFiltered == {i \in ExpectedTeam : \A r \in Roles : kept_by(r, i)}
ExpectedView == {i \in ExpectedFiltered : threshold_applies => meets_threshold(i)}

\* the frame lists exactly the records of S, in the order of the upload
lists(rows, S) ==
    /\ Range(rows) = S
    /\ \A p, q \in DOMAIN rows : p < q => rows[p] < rows[q]

\* the exception one run with these widget values ends in: v1 reads a
\* resolved column that the frame does not hold; v2 and v3 compare the
\* zone-less column of a file without Date or Time to a preset day; v3.6
\* masks an empty frame with the B2C roster alone
ExpectedError ==
    IF app = "v1"
    THEN IF \E r \in {"duration", "start", "agent", "country"} :
               /\ ~isna(cols[r])
               /\ \A n \in DOMAIN upload.columns : upload.columns[n] # cols[r].val
               /\ cols[r].val \notin added_before(r)
         THEN "KeyError" ELSE "ok"
    ELSE IF app = "v3_6"
    THEN IF /\ ExpectedDated = {} /\ ~isna(cols.agent)
            /\ w.team_mode = "B2C team only" /\ ~w.add_mt /\ ~w.include_missing
         THEN "KeyError" ELSE "ok"
    ELSE IF (isna(cols.date) \/ isna(cols.time)) /\ date_constrained
    THEN "TypeError" ELSE "ok"

\* the rows of table t, as a set, are the groups of the expected view with
\* the aggregates of their records
ExpectedRows(t) ==
    {KeyOf(df, i, dims_of(t)) : i \in ExpectedView}
records_of(t, k) ==
    SelectSeq(all_rows(df), LAMBDA i :
        i \in ExpectedView /\ KeyOf(df, i, dims_of(t)) = k)
table_as_expected(t) ==
    /\ {tables[t].rows[p].key : p \in DOMAIN tables[t].rows} = ExpectedRows(t)
    /\ Len(tables[t].rows) = Cardinality(ExpectedRows(t))
    /\ \A p \in DOMAIN tables[t].rows :
          LET r == tables[t].rows[p]
              d == durations(df, records_of(t, r.key))
          IN  /\ r.sum = SumSeq(d)
              /\ HasCount(t) => /\ r.count = Len(d)
                                /\ r.mean = series_mean(d)
                                /\ r.median = series_median(d)

\* the attempts-by-hour table counts the expected filtered set, hour by
\* hour, in ascending order of the hour
ExpectedHours == {df[i]._hour.val : i \in {j \in ExpectedFiltered : ~isna(df[j]._hour)}}
attempts_as_expected ==
    /\ {attempts[k] : k \in DOMAIN attempts}
          = {[Hour |-> h,
              Attempts |-> Cardinality({i \in ExpectedFiltered : df[i]._hour = Num(h)})] :
                h \in ExpectedHours}
    /\ \A j, k \in DOMAIN attempts : j < k => attempts[j].Hour < attempts[k].Hour

\* C25: whatever widget changes came before, the schema and the loaded
\* frame are those of the upload, unchanged by the filters, and the outcome
\* of the run, every stage of the filtered set, the view, Total Calls, the
\* tables and the attempts are those that the upload, the present widget
\* values and the current date determine by themselves; after a run that
\* ended in an exception nothing of an earlier run is shown.
C25_ResultIsFunctionOfFinalWidgets ==
    /\ cols = schema(app, upload.columns, w.map)
    /\ df = prepared(app, upload, cols)
    /\ err = ExpectedError
    /\ err = "ok" =>
          /\ DOMAIN df = DOMAIN upload.rows
          /\ lists(df_date, ExpectedDated)
          /\ lists(df_team, ExpectedTeam)
          /\ lists(df_f, ExpectedFiltered)
          /\ lists(df_view, ExpectedView)
          /\ kpi.total_calls = Cardinality(ExpectedView)
          /\ \A t \in TableNames :
                /\ shown(t) <=> \A n \in DOMAIN dims_roles(t) : ~isna(cols[dims_roles(t)[n]])
                /\ shown(t) => table_as_expected(t)
          /\ attempts_as_expected
    /\ err # "ok" =>
          /\ df_date = <<>> /\ df_team = <<>> /\ df_f = <<>> /\ df_view = <<>>
          /\ tables = NotShown /\ attempts = NotShown
          /\ kpi # NotShown => kpi.total_calls = 0

\* two widget changes, the second back to the widget values of the first
\* run, on a file with a picker of several options and a non-empty filtered
\* set
C25_Witness ==
    /\ clicks = 2
    /\ w = defaults(app, upload.columns, df, cols)
    /\ df_f # <<>>
    /\ \E r \in Roles : sel_of(r) # None /\ Cardinality(sel_of(r).val) >= 2

\* C26: in v2, v3 and v3.6 a categorical filter with nothing selected drops
\* no record: every record of the team stage that gets through the filters
\* on the other fields is in the filtered set, whatever its value in that
\* field, a missing one included, and whatever include_missing is.
C26_EmptySelectionDropsNothing ==
    app \in {"v2", "v3", "v3_6"} =>
        \A r \in Roles :
            (~isna(col_of(r)) /\ sel_of(r) # None /\ sel_of(r).val = {}) =>
                \A i \in Range(df_team) :
                    (\A r2 \in Roles \ {r} : kept_by(r2, i)) => i \in Range(df_f)

\* v3.6 with include_missing off and no agent selected: a record without an
\* agent and a record with one are both in the filtered set
C26_Witness ==
    /\ app = "v3_6" /\ ~w.include_missing
    /\ ~isna(cols.agent) /\ w.sel_agents # None /\ w.sel_agents.val = {}
    /\ \E i \in Range(df_f) : isna(cell_of("agent", i))
    /\ \E i \in Range(df_f) : ~isna(cell_of("agent", i))

\* a frame lists records of the upload, none of them twice
is_frame(rows) ==
    /\ Range(rows) \subseteq DOMAIN upload.rows
    /\ \A p, q \in DOMAIN rows : rows[p] = rows[q] => p = q
\* the views are nested: threshold view, filtered (attempts) view, loaded set
views_nested ==
    /\ DOMAIN df = DOMAIN upload.rows
    /\ is_frame(df_view) /\ is_frame(df_f) /\ is_frame(df_team) /\ is_frame(df_date)
    /\ is_frame(attempts_source(df_f, df_view))
    /\ Range(df_view) \subseteq Range(df_f)
    /\ Range(df_f) \subseteq Range(df_team)
    /\ Range(df_team) \subseteq Range(df_date)
    /\ Range(attempts_source(df_f, df_view)) = Range(df_f)
\* every record of the view has a duration of at least the threshold
view_meets_threshold ==
    \A i \in Range(df_view) :
        df[i]._duration_sec.kind = "num" /\ df[i]._duration_sec.val >= w.threshold

\* C27 (as claimed): for every setting of the widgets the views are nested,
\* hold records of the upload only and none twice, and in threshold mode
\* every record of the view has a defined duration >= threshold.
C27_ViewsNestedAndThresholdMet ==
    err = "ok" =>
        /\ views_nested
        /\ w.mode = "threshold" => view_meets_threshold

\* C27 as the code has it: the same, the threshold part whenever a duration
\* column is resolved; v1 without one keeps the whole filtered set as view.
C27_ViewsNestedThresholdWhenResolved ==
    err = "ok" =>
        /\ views_nested
        /\ (w.mode = "threshold" /\ ~(app = "v1" /\ isna(cols.duration)))
              => view_meets_threshold
        /\ (w.mode = "threshold" /\ app = "v1" /\ isna(cols.duration))
              => df_view = df_f

\* threshold mode with the three sets strictly nested and a non-empty view
C27_Witness ==
    /\ w.mode = "threshold"
    /\ df_view # <<>>
    /\ Len(df_view) < Len(df_f)
    /\ Len(df_f) < Len(df)
    /\ \E i \in Range(df_view) : df[i]._duration_sec.val = w.threshold

\* C28: the key of every record of the view is a row of every available
\* table, also when no record of that key has a duration; the Total Duration
\* of such a row is 0 while its mean and median (the v1 matrix lists sums
\* only) are the missing marker.
C28_UnmeasuredGroupIsRowWithZeroSum ==
    \A t \in TableNames :
        shown(t) =>
            /\ \A i \in Range(df_view) :
                   \E p \in DOMAIN tables[t].rows :
                       tables[t].rows[p].key = KeyOf(df, i, dims_of(t))
            /\ \A p \in DOMAIN tables[t].rows :
                   has_no_duration(t, p) =>
                       /\ tables[t].rows[p].sum = 0
                       /\ HasCount(t) => /\ tables[t].rows[p].mean = NaN
                                         /\ tables[t].rows[p].median = NaN

\* a country whose calls in the view all lack a duration is listed with
\* Total Duration 0 next to a country with talk time
C28_Witness ==
    /\ shown("country")
    /\ \E p \in DOMAIN tables.country.rows :
          /\ has_no_duration("country", p)
          /\ group_rows("country", tables.country.rows[p].key) # <<>>
          /\ tables.country.rows[p].sum = 0
          /\ isna(tables.country.rows[p].mean)
    /\ \E q \in DOMAIN tables.country.rows : tables.country.rows[q].sum > 0


====
